---- MODULE Spec2Model ----
(***************************************************************************)
(* Client-side state machines of the math-tutoring frontend: the answer    *)
(* store (staging, submit, grading poll), the mission store, the auth      *)
(* store, and the view handlers that drive them (Mission, Results, Header, *)
(* App).  The backend is the environment: it serves each request at some   *)
(* instant between its issue and the delivery of its response.             *)
(*                                                                         *)
(* Every store/view operation is a function from a state record to a state *)
(* record, so that a handler that calls several operations in a row is one *)
(* action.  Optional values (T | null) are sequences of length 0 or 1.     *)
(***************************************************************************)
EXTENDS Integers, Sequences, FiniteSets, Bags, TLC

\* ------------------------------------------------------------------ bounds
MaxImages == 1      \* previews ever created by the capture surface (Spec)
MaxStaged == 3      \* previews ever created when the store is driven directly
MaxRemoveCalls == 3 \* removeCapturedImage calls counted in one run
MaxResultCalls == 3 \* getAnswerResult calls by a caller in one run (SpecLive)
LiveAnswers == 1    \* answers submitted and awaiting grading (SpecLive)
StoreImages == 1    \* previews ever created (SpecStore)
StoreAnswers == 1   \* answers ever submitted (SpecStore)
StoreInFlight == 1  \* pending requests and timers (SpecStore)
FollowInFlight == 1 \* pending requests and timers (SpecFollowUp)
AuthInFlight == 2   \* pending requests (SpecAuth)
MissionInFlight == 2 \* pending requests (SpecMission)
CalmInFlight == 1   \* pending requests (SpecMissionCalm)
MaxTicks == 4       \* clock ticks in one run (SpecTimer)
TickMs == 500       \* milliseconds the clock advances in one tick
ViewTicks == 2      \* clock ticks in one run (SpecView)
MaxAnswers == 2     \* answer records the backend ever creates
MaxInFlight == 2    \* requests in flight plus poll timers pending at once
MaxLogins == 1      \* successful logins in one run
TotalProblems == 2  \* problems of the mission the backend holds

\* --------------------------------------------------------------- variables
VARIABLES
  \* auth store (src/unnamed/part_002) and the stored credential
  isAuthenticated, user, token, authIsLoading, authError, authToken,
  \* mission store (src/frontend/src/pages/Results.tsx 482-698)
  currentMission, currentProblem, missionProgress, isLoading, missionError,
  timeSpent, startTime,
  \* answer store (src/frontend/src/pages/Results.tsx 255-441)
  currentAnswer, answerResult, capturedImages, isSubmitting, isProcessing,
  error,
  \* views: the route and the Mission view's local state
  page, routeAnswerId, showSubmitConfirm, isSubmittingAnswer,
  \* the Results view's local state (src/frontend/src/pages/Results.tsx 36)
  hasNextProblem,
  \* environment: requests in flight, pending poll timers, released previews,
  \* the preview allocator, the backend's answers and mission, the clock
  net, timers, revoked, nextImage, srvAnswers, srvCompleted, now,
  \* history: the last operation, the most recent result request, whether a
  \* store was reset and has issued no request since, counters
  last, lastResultReq, ansFresh, misFresh, logins, removeCalls, removeHits,
  resultCalls, srvStatus,
  \* history: whether the last step changed the problem under the mounted
  \* Mission view ("no", "toProblem", "toNone")
  switched

vars == << isAuthenticated, user, token, authIsLoading, authError, authToken,
           currentMission, currentProblem, missionProgress, isLoading,
           missionError, timeSpent, startTime,
           currentAnswer, answerResult, capturedImages, isSubmitting,
           isProcessing, error,
           page, routeAnswerId, showSubmitConfirm, isSubmittingAnswer,
           net, timers, revoked, nextImage, srvAnswers, srvCompleted, now,
           last, lastResultReq, ansFresh, misFresh, logins, removeCalls,
           removeHits, resultCalls, srvStatus, switched, hasNextProblem >>

\* ----------------------------------------------------------------- helpers
None == << >>
Some(x) == << x >>
IsSome(o) == Len(o) = 1

Cur == [ isAuthenticated |-> isAuthenticated, user |-> user, token |-> token,
         authIsLoading |-> authIsLoading, authError |-> authError,
         authToken |-> authToken,
         currentMission |-> currentMission, currentProblem |-> currentProblem,
         missionProgress |-> missionProgress, isLoading |-> isLoading,
         missionError |-> missionError, timeSpent |-> timeSpent,
         startTime |-> startTime,
         currentAnswer |-> currentAnswer, answerResult |-> answerResult,
         capturedImages |-> capturedImages, isSubmitting |-> isSubmitting,
         isProcessing |-> isProcessing, error |-> error,
         page |-> page, routeAnswerId |-> routeAnswerId,
         showSubmitConfirm |-> showSubmitConfirm,
         isSubmittingAnswer |-> isSubmittingAnswer,
         net |-> net, timers |-> timers, revoked |-> revoked,
         nextImage |-> nextImage, srvAnswers |-> srvAnswers,
         srvCompleted |-> srvCompleted, now |-> now,
         last |-> last, lastResultReq |-> lastResultReq,
         ansFresh |-> ansFresh, misFresh |-> misFresh, logins |-> logins,
         removeCalls |-> removeCalls, removeHits |-> removeHits,
         resultCalls |-> resultCalls, srvStatus |-> srvStatus,
         hasNextProblem |-> hasNextProblem ]

\* The dependency `currentProblem?.id` of the Mission view's timer effect.
ProblemId(s) == IF s.currentProblem = None THEN 0 ELSE s.currentProblem[1].id

\* Whether the step from old to s changed that dependency under a Mission
\* view that stays mounted.
Switch(old, s) ==
  IF old.page = "mission" /\ s.page = "mission" /\ ProblemId(old) # ProblemId(s)
  THEN (IF s.currentProblem = None THEN "toNone" ELSE "toProblem")
  ELSE "no"

Apply(s) ==
  /\ isAuthenticated' = s.isAuthenticated /\ user' = s.user
  /\ token' = s.token /\ authIsLoading' = s.authIsLoading
  /\ authError' = s.authError /\ authToken' = s.authToken
  /\ currentMission' = s.currentMission /\ currentProblem' = s.currentProblem
  /\ missionProgress' = s.missionProgress /\ isLoading' = s.isLoading
  /\ missionError' = s.missionError /\ timeSpent' = s.timeSpent
  /\ startTime' = s.startTime
  /\ currentAnswer' = s.currentAnswer /\ answerResult' = s.answerResult
  /\ capturedImages' = s.capturedImages /\ isSubmitting' = s.isSubmitting
  /\ isProcessing' = s.isProcessing /\ error' = s.error
  /\ page' = s.page /\ routeAnswerId' = s.routeAnswerId
  /\ showSubmitConfirm' = s.showSubmitConfirm
  /\ isSubmittingAnswer' = s.isSubmittingAnswer
  /\ net' = s.net /\ timers' = s.timers /\ revoked' = s.revoked
  /\ nextImage' = s.nextImage /\ srvAnswers' = s.srvAnswers
  /\ srvCompleted' = s.srvCompleted /\ now' = s.now
  /\ last' = s.last /\ lastResultReq' = s.lastResultReq
  /\ ansFresh' = s.ansFresh /\ misFresh' = s.misFresh /\ logins' = s.logins
  /\ removeCalls' = s.removeCalls /\ removeHits' = s.removeHits
  /\ resultCalls' = s.resultCalls /\ srvStatus' = s.srvStatus
  /\ switched' = Switch(Cur, s)
  /\ hasNextProblem' = s.hasNextProblem

One(x) == SetToBag({x})
Put(b, x) == b (+) One(x)
Take(b, x) == b (-) One(x)

\* The record of the last client operation, for the properties: for a
\* delivered response, its request's kind, argument, status and data.
Ev(op, arg, st, val) == [op |-> op, arg |-> arg, st |-> st, val |-> val]
Did(s, op, arg) == [s EXCEPT !.last = Ev(op, arg, "", << >>)]

\* --------------------------------------------------------------- constants
MsPerSecond == 1000
InitialNow == 1000
MissionId == 1
GradedScore == 70
UserId == 1

\* Error texts.  MsgHttp is the message of the Error that ApiService.request
\* throws on a failed transport or a non-2xx status; MsgEnvelope is the
\* message of a success:false envelope.
MsgNeedImage == "answer image required"
MsgHttp == "http error"
MsgEnvelope == "envelope message"
MsgNotFinished == "mission not finished"

\* A request in flight.  st: "sent" until the backend serves it, then "ok"
\* (2xx, success with data), "refused" (2xx, success:false or no data) or
\* "fail" (the request throws).  val: the data the backend put in it.
\* via: the caller whose continuation runs after the store's own handling.
\* nav: the answer id a Mission continuation navigates to.
\* tok: whether localStorage held an authToken when the request was built.
Req(s, kind, arg, via, nav) ==
  [kind |-> kind, arg |-> arg, via |-> via, nav |-> nav,
   tok |-> IsSome(s.authToken), st |-> "sent", val |-> << >>]

Send(s, r) == [s EXCEPT !.net = Put(@, r)]

\* The message a store's catch block records for a response that did not
\* succeed.
FailureMessage(r) == IF r.st = "refused" THEN MsgEnvelope ELSE MsgHttp

\* Pending asynchronous activities: requests in flight and poll timers.
Pending(s) == BagCardinality(s.net) + BagCardinality(s.timers)

\* ------------------------------------------------------------ answer store
RECURSIVE FilterIndex(_, _, _)
\* capturedImages.filter((_, i) => i !== index), i counted from `from`
FilterIndex(seq, index, from) ==
  IF seq = << >> THEN << >>
  ELSE (IF from # index THEN << Head(seq) >> ELSE << >>)
       \o FilterIndex(Tail(seq), index, from + 1)

Occurrences(seq, x) == Cardinality({i \in 1..Len(seq) : seq[i] = x})

\* URL.revokeObjectURL(image.preview) for every staged image
RevokeStaged(s) ==
  [s EXCEPT !.revoked =
     [p \in DOMAIN @ |-> @[p] + Occurrences(s.capturedImages, p)]]

addCapturedImage(s, image) ==
  [s EXCEPT !.capturedImages = Append(@, image), !.error = None]

\* Variant: positions counted from 1 instead of 0.
removeCapturedImage_fromOne(s, index) ==
  [s EXCEPT !.capturedImages = FilterIndex(@, index, 1)]

removeCapturedImage(s, index) ==
  [s EXCEPT !.capturedImages = FilterIndex(@, index, 0)]

clearCapturedImages(s) ==
  [RevokeStaged(s) EXCEPT !.capturedImages = << >>]

\* Variant: no validation of the staged list.
submitAnswerThrows_never(s) == FALSE

\* submitAnswer throws before any request when nothing is staged.
submitAnswerThrows(s) == Len(s.capturedImages) = 0

\* submitAnswer up to its await.
submitAnswerCall(s, problemId, via) ==
  IF submitAnswerThrows(s)
  THEN [s EXCEPT !.error = Some(MsgNeedImage)]
  ELSE Send([s EXCEPT !.isSubmitting = TRUE, !.error = None,
                      !.ansFresh = FALSE],
            Req(s, "submit", problemId, via, 0))

\* submitAnswer after its await; it resolves iff r.st = "ok".
submitAnswerResp(s, r) ==
  IF r.st = "ok"
  THEN [s EXCEPT !.isSubmitting = FALSE]
  ELSE [s EXCEPT !.isSubmitting = FALSE,
                 !.error = Some(FailureMessage(r))]

\* The answer and the derived result carried by a result response.
ResponseAnswer(r) == [id |-> r.arg, score |-> r.val]
ResponseResult(r) ==
  IF r.val = None THEN None
  ELSE Some([answer_id |-> r.arg, score |-> r.val[1]])

\* Variant: an unset score is not polled for.
NeedsPoll_never(answer) == FALSE

\* answer.score === null
NeedsPoll(answer) == answer.score = None

\* getAnswerResult up to its await.
getAnswerResultCall(s, answerId, via) ==
  Send([s EXCEPT !.error = None, !.lastResultReq = answerId,
                 !.ansFresh = FALSE],
       Req(s, "result", answerId, via, 0))

\* Variant: a failed fetch clears the flag and records nothing.
getAnswerResultResp_flagOnly(s, r) ==
  IF r.st = "ok"
  THEN LET answer == ResponseAnswer(r)
           s1 == [s EXCEPT !.currentAnswer = Some(answer),
                           !.answerResult = ResponseResult(r),
                           !.isProcessing = FALSE]
       IN IF NeedsPoll(answer)
          THEN [s1 EXCEPT !.isProcessing = TRUE,
                          !.timers = Put(@, r.arg)]
          ELSE s1
  ELSE [s EXCEPT !.isProcessing = FALSE]

\* getAnswerResult after its await.
getAnswerResultResp(s, r) ==
  IF r.st = "ok"
  THEN LET answer == ResponseAnswer(r)
           s1 == [s EXCEPT !.currentAnswer = Some(answer),
                           !.answerResult = ResponseResult(r),
                           !.isProcessing = FALSE]
       IN IF NeedsPoll(answer)
          THEN [s1 EXCEPT !.isProcessing = TRUE,
                          !.timers = Put(@, r.arg)]
          ELSE s1
  ELSE [s EXCEPT !.error = Some(FailureMessage(r)),
                 !.isProcessing = FALSE]

\* processAnswer up to its await.
processAnswerCall(s, answerId, via) ==
  Send([s EXCEPT !.isProcessing = TRUE, !.error = None, !.ansFresh = FALSE],
       Req(s, "process", answerId, via, 0))

\* Variant: a successful processing request is not followed by a fetch.
processAnswerResp_noFetch(s, r) ==
  IF r.st = "ok"
  THEN [s EXCEPT !.isProcessing = FALSE]
  ELSE [s EXCEPT !.isProcessing = FALSE, !.error = Some(FailureMessage(r))]

\* processAnswer after its await, up to its await of getAnswerResult.
processAnswerResp(s, r) ==
  IF r.st = "ok"
  THEN getAnswerResultCall([s EXCEPT !.isProcessing = FALSE], r.arg,
                           "processAnswer")
  ELSE [s EXCEPT !.isProcessing = FALSE, !.error = Some(FailureMessage(r))]

\* addAnswerImages up to its await.
addAnswerImagesCall(s, answerId, via) ==
  Send([s EXCEPT !.isSubmitting = TRUE, !.error = None, !.ansFresh = FALSE],
       Req(s, "addImages", answerId, via, 0))

\* addAnswerImages after its await, up to its await of getAnswerResult.
addAnswerImagesResp(s, r) ==
  IF r.st = "ok"
  THEN getAnswerResultCall([s EXCEPT !.isSubmitting = FALSE], r.arg,
                           "addAnswerImages")
  ELSE [s EXCEPT !.isSubmitting = FALSE, !.error = Some(FailureMessage(r))]

\* The catch block of processAnswer / addAnswerImages when the
\* getAnswerResult they await has rejected (s: after getAnswerResult's own
\* handling of response r).
followUpCatch(s, r) ==
  IF r.st = "ok" THEN s
  ELSE IF r.via = "processAnswer"
  THEN [s EXCEPT !.isProcessing = FALSE, !.error = Some(FailureMessage(r))]
  ELSE IF r.via = "addAnswerImages"
  THEN [s EXCEPT !.isSubmitting = FALSE, !.error = Some(FailureMessage(r))]
  ELSE s

\* Variant: the timer's callback fetches nothing.
pollTick_idle(s, answerId) == [s EXCEPT !.timers = Take(@, answerId)]

\* The poll timer's callback: get().getAnswerResult(answerId)
pollTick(s, answerId) ==
  getAnswerResultCall([s EXCEPT !.timers = Take(@, answerId)],
                      answerId, "poll")

\* Variant: the fields are reset, the previews are not released.
resetAnswer_noRelease(s) ==
  [s EXCEPT !.currentAnswer = None, !.answerResult = None,
            !.capturedImages = << >>, !.isSubmitting = FALSE,
            !.isProcessing = FALSE, !.error = None,
            !.ansFresh = TRUE]

resetAnswer(s) ==
  [RevokeStaged(s) EXCEPT !.currentAnswer = None, !.answerResult = None,
                          !.capturedImages = << >>, !.isSubmitting = FALSE,
                          !.isProcessing = FALSE, !.error = None,
                          !.ansFresh = TRUE]


\* ----------------------------------------------------------- mission store
\* The backend's view of the mission with `completed` problems done, as the
\* mission endpoints return it.
Problem(id) == [id |-> id]
MissionOf(completed) ==
  [id |-> MissionId, status |-> "in_progress",
   total_problems |-> TotalProblems, completed_problems |-> completed]
CompletedMissionOf(completed) ==
  [id |-> MissionId, status |-> "completed",
   total_problems |-> TotalProblems, completed_problems |-> completed]
CurrentProblemOf(completed) ==
  IF completed < TotalProblems THEN Some(Problem(completed + 1)) ELSE None
ProgressOf(completed) ==
  [mission_id |-> MissionId, total_problems |-> TotalProblems,
   completed_problems |-> completed,
   current_problem |-> CurrentProblemOf(completed),
   progress_percentage |-> (completed * 100) \div TotalProblems]

startTimer(s) == [s EXCEPT !.startTime = Some(s.now)]

\* `if (startTime)`: a start instant of 0 is falsy like null.
TimerRunning(s) == IsSome(s.startTime) /\ s.startTime[1] # 0

\* Variant: the elapsed seconds are added, the start instant is kept.
stopTimer_keepStart(s) ==
  IF TimerRunning(s)
  THEN [s EXCEPT !.timeSpent = @ + ((s.now - s.startTime[1]) \div MsPerSecond)]
  ELSE s

stopTimer(s) ==
  IF TimerRunning(s)
  THEN [s EXCEPT !.timeSpent = @ + ((s.now - s.startTime[1]) \div MsPerSecond),
                 !.startTime = None]
  ELSE s

\* Variant: only the accumulator is zeroed.
resetTimer_keepStart(s) == [s EXCEPT !.timeSpent = 0]

resetTimer(s) == [s EXCEPT !.timeSpent = 0, !.startTime = None]

\* Variant: the running interval is not counted.
getTimeSpent_accumulated(s) == s.timeSpent

getTimeSpent(s) ==
  IF TimerRunning(s)
  THEN s.timeSpent + ((s.now - s.startTime[1]) \div MsPerSecond)
  ELSE s.timeSpent

fetchCurrentMissionCall(s, via) ==
  Send([s EXCEPT !.isLoading = TRUE, !.missionError = None,
                 !.misFresh = FALSE],
       Req(s, "current", 0, via, 0))

\* Variant: every response without data empties the store.
fetchCurrentMissionResp_clearing(s, r) ==
  IF r.st = "ok"
  THEN [s EXCEPT !.currentMission = Some(MissionOf(r.val[1])),
                 !.currentProblem = CurrentProblemOf(r.val[1]),
                 !.missionProgress = Some(ProgressOf(r.val[1])),
                 !.isLoading = FALSE]
  ELSE [s EXCEPT !.currentMission = None, !.currentProblem = None,
                 !.missionProgress = None, !.isLoading = FALSE,
                 !.missionError = IF r.st = "fail" THEN Some(MsgHttp) ELSE @]

\* Variant: a success:false envelope is thrown like a failure.
fetchCurrentMissionResp_strict(s, r) ==
  IF r.st = "ok"
  THEN [s EXCEPT !.currentMission = Some(MissionOf(r.val[1])),
                 !.currentProblem = CurrentProblemOf(r.val[1]),
                 !.missionProgress = Some(ProgressOf(r.val[1])),
                 !.isLoading = FALSE]
  ELSE [s EXCEPT !.isLoading = FALSE,
                 !.missionError = Some(FailureMessage(r))]

fetchCurrentMissionResp(s, r) ==
  IF r.st = "ok"
  THEN [s EXCEPT !.currentMission = Some(MissionOf(r.val[1])),
                 !.currentProblem = CurrentProblemOf(r.val[1]),
                 !.missionProgress = Some(ProgressOf(r.val[1])),
                 !.isLoading = FALSE]
  ELSE IF r.st = "refused"
  THEN [s EXCEPT !.currentMission = None, !.currentProblem = None,
                 !.missionProgress = None, !.isLoading = FALSE]
  ELSE [s EXCEPT !.isLoading = FALSE, !.missionError = Some(MsgHttp)]

\* getCurrentProblem and updateProgress return at once without a mission.
getCurrentProblemCall(s, via) ==
  IF s.currentMission = None THEN s
  ELSE Send([s EXCEPT !.misFresh = FALSE],
            Req(s, "next", s.currentMission[1].id, via, 0))

getCurrentProblemResp(s, r) ==
  IF r.st = "ok" THEN [s EXCEPT !.currentProblem = Some(Problem(r.val[1]))]
  ELSE IF r.st = "refused" THEN [s EXCEPT !.currentProblem = None]
  ELSE [s EXCEPT !.missionError = Some(MsgHttp)]

updateProgressCall(s, via, nav) ==
  IF s.currentMission = None THEN s
  ELSE Send([s EXCEPT !.misFresh = FALSE],
            Req(s, "progress", s.currentMission[1].id, via, nav))

\* Variant: the snapshot is refreshed, the current problem is not.
updateProgressResp_snapshotOnly(s, r) ==
  IF r.st = "ok"
  THEN [s EXCEPT !.missionProgress = Some(ProgressOf(r.val[1]))]
  ELSE s

\* Variant: a snapshot without a current problem leaves the problem held.
updateProgressResp_neverEmpty(s, r) ==
  IF r.st = "ok"
  THEN [s EXCEPT !.missionProgress = Some(ProgressOf(r.val[1])),
                 !.currentProblem = IF CurrentProblemOf(r.val[1]) = None
                                    THEN @ ELSE CurrentProblemOf(r.val[1])]
  ELSE s

updateProgressResp(s, r) ==
  IF r.st = "ok"
  THEN [s EXCEPT !.missionProgress = Some(ProgressOf(r.val[1])),
                 !.currentProblem = CurrentProblemOf(r.val[1])]
  ELSE s

\* startNewMission up to its await.
startNewMissionCall(s, via) ==
  Send([s EXCEPT !.isLoading = TRUE, !.missionError = None,
                 !.misFresh = FALSE],
       Req(s, "start", 0, via, 0))

\* The progress snapshot startNewMission computes from the creation response.
StartProgressOf(mission, first_problem) ==
  [mission_id |-> mission.id, total_problems |-> mission.total_problems,
   completed_problems |-> mission.completed_problems,
   current_problem |-> Some(first_problem),
   progress_percentage |-> 0]

\* Variant: the progress is left to a round-trip refresh.
startNewMissionResp_roundTrip(s, r) ==
  IF r.st = "ok"
  THEN updateProgressCall(
         [s EXCEPT !.currentMission = Some(MissionOf(r.val[1])),
                   !.currentProblem = Some(Problem(r.val[2])),
                   !.isLoading = FALSE],
         "store", 0)
  ELSE [s EXCEPT !.isLoading = FALSE,
                 !.missionError = Some(FailureMessage(r))]

\* startNewMission after its await.
startNewMissionResp(s, r) ==
  IF r.st = "ok"
  THEN LET mission == MissionOf(r.val[1])
           first_problem == Problem(r.val[2])
       IN [s EXCEPT !.currentMission = Some(mission),
                    !.currentProblem = Some(first_problem),
                    !.missionProgress =
                       Some(StartProgressOf(mission, first_problem)),
                    !.isLoading = FALSE]
  ELSE [s EXCEPT !.isLoading = FALSE,
                 !.missionError = Some(FailureMessage(r))]

\* completeMission returns at once without a mission; else up to its await.
completeMissionCall(s, via) ==
  IF s.currentMission = None THEN s
  ELSE Send([s EXCEPT !.isLoading = TRUE, !.missionError = None,
                      !.misFresh = FALSE],
            Req(s, "complete", s.currentMission[1].id, via, 0))

\* Variant: the completed mission is stored, the progress is not refreshed.
completeMissionResp_noRefresh(s, r) ==
  IF r.st = "ok"
  THEN IF r.val[1] = 1
       THEN [s EXCEPT !.currentMission = Some(CompletedMissionOf(r.val[2])),
                      !.currentProblem = None,
                      !.isLoading = FALSE]
       ELSE [s EXCEPT !.isLoading = FALSE,
                      !.missionError = Some(MsgNotFinished)]
  ELSE IF r.st = "refused" THEN s
  ELSE [s EXCEPT !.isLoading = FALSE, !.missionError = Some(MsgHttp)]

\* completeMission after its await, up to its await of updateProgress.
\* r.val = << completed flag, completed_problems of the mission returned >>.
\* A success:false envelope matches no branch: nothing is set and the call
\* resolves.
completeMissionResp(s, r) ==
  IF r.st = "ok"
  THEN IF r.val[1] = 1
       THEN updateProgressCall(
              [s EXCEPT !.currentMission = Some(CompletedMissionOf(r.val[2])),
                        !.currentProblem = None,
                        !.isLoading = FALSE],
              "complete", 0)
       ELSE [s EXCEPT !.isLoading = FALSE,
                      !.missionError = Some(MsgNotFinished)]
  ELSE IF r.st = "refused" THEN s
  ELSE [s EXCEPT !.isLoading = FALSE, !.missionError = Some(MsgHttp)]

resetMission(s) ==
  [s EXCEPT !.currentMission = None, !.currentProblem = None,
            !.missionProgress = None, !.isLoading = FALSE,
            !.missionError = None, !.timeSpent = 0, !.startTime = None,
            !.misFresh = TRUE]

\* -------------------------------------------------------------- auth store
loginCall(s) ==
  Send([s EXCEPT !.authIsLoading = TRUE, !.authError = None],
       Req(s, "login", 0, "Login", 0))

loginResp(s, r) ==
  IF r.st = "ok"
  THEN [s EXCEPT !.authToken = Some("jwt"), !.isAuthenticated = TRUE,
                 !.user = Some(UserId), !.token = Some("jwt"),
                 !.authIsLoading = FALSE, !.authError = None,
                 !.logins = @ + 1]
  ELSE [s EXCEPT !.authIsLoading = FALSE,
                 !.authError = Some(FailureMessage(r)),
                 !.isAuthenticated = FALSE, !.user = None, !.token = None,
                 !.authToken = None]

\* verifyToken up to its await; without a stored credential it returns at
\* once.
verifyTokenCall(s) ==
  IF s.authToken = None
  THEN [s EXCEPT !.isAuthenticated = FALSE, !.user = None, !.token = None]
  ELSE Send([s EXCEPT !.authIsLoading = TRUE], Req(s, "verify", 0, "store", 0))

\* Variant: a failed verification is recorded as an error.
verifyTokenResp_loud(s, r) ==
  IF r.st = "ok"
  THEN [s EXCEPT !.isAuthenticated = TRUE, !.user = Some(UserId),
                 !.token = Some("jwt"), !.authIsLoading = FALSE,
                 !.authError = None]
  ELSE [s EXCEPT !.authToken = None, !.isAuthenticated = FALSE,
                 !.user = None, !.token = None, !.authIsLoading = FALSE,
                 !.authError = Some(FailureMessage(r))]

\* verifyToken after its await.  `token` is the credential it read before
\* the request (every credential of the model is the same string); "ok" is
\* a response with a user, every other response goes to the catch block.
verifyTokenResp(s, r) ==
  IF r.st = "ok"
  THEN [s EXCEPT !.isAuthenticated = TRUE, !.user = Some(UserId),
                 !.token = Some("jwt"), !.authIsLoading = FALSE,
                 !.authError = None]
  ELSE [s EXCEPT !.authToken = None, !.isAuthenticated = FALSE,
                 !.user = None, !.token = None, !.authIsLoading = FALSE,
                 !.authError = None]

\* logout: the background request to the server is fire-and-forget (its
\* outcome is only logged), so it is not kept in flight.
logout(s) ==
  [s EXCEPT !.authToken = None, !.isAuthenticated = FALSE, !.user = None,
            !.token = None, !.authError = None]


\* ------------------------------------------------------------------- views
RECURSIVE BagOfSeq(_)
BagOfSeq(seq) ==
  IF seq = << >> THEN EmptyBag ELSE Put(BagOfSeq(Tail(seq)), Head(seq))

RECURSIVE SeqOfSet(_)
SeqOfSet(S) ==
  IF S = {} THEN << >>
  ELSE LET x == CHOOSE y \in S : TRUE IN << x >> \o SeqOfSet(S \ {x})

RECURSIVE Repeat(_, _)
Repeat(x, n) == IF n = 0 THEN << >> ELSE << x >> \o Repeat(x, n - 1)

RECURSIVE SeqOfBag(_, _)
SeqOfBag(b, elems) ==
  IF elems = << >> THEN << >>
  ELSE Repeat(Head(elems), CopiesIn(Head(elems), b)) \o SeqOfBag(b, Tail(elems))

\* A continuation of an unmounted Mission view still runs, but its local
\* state setters no longer have an effect.
Detach(r) ==
  IF r.via = "Mission" THEN [r EXCEPT !.via = "MissionGone"]
  ELSE IF r.via = "Results" THEN [r EXCEPT !.via = "ResultsGone"]
  ELSE IF r.via = "ResultsNext" THEN [r EXCEPT !.via = "ResultsNextGone"]
  ELSE r

DetachAll(b) ==
  LET seq == SeqOfBag(b, SeqOfSet(BagToSet(b)))
  IN BagOfSeq([i \in DOMAIN seq |-> Detach(seq[i])])

\* Unmounting the current page: the Mission view's timer effect cleanup
\* (stopTimer) runs and its local state is gone; the Results view's local
\* state is gone.
Leave(s) ==
  IF s.page = "mission"
  THEN [stopTimer(s) EXCEPT !.showSubmitConfirm = FALSE,
                            !.isSubmittingAnswer = FALSE,
                            !.net = DetachAll(@)]
  ELSE IF s.page = "results"
  THEN [s EXCEPT !.hasNextProblem = None, !.net = DetachAll(@)]
  ELSE s

\* Variant: the decision looks at the store's current problem.
checkNextProblemEnd_real(s, via) ==
  IF via = "ResultsNext"
  THEN [s EXCEPT !.hasNextProblem = Some(s.currentProblem # None)]
  ELSE s

\* Results.checkNextProblem after both awaits: setHasNextProblem(true), a
\* no-op once the view that started it is unmounted.  Neither updateProgress
\* nor getCurrentProblem rejects, so its catch branch is never taken.
checkNextProblemEnd(s, via) ==
  IF via = "ResultsNext" THEN [s EXCEPT !.hasNextProblem = Some(TRUE)] ELSE s

\* Results: the next-problem effect (checkNextProblem), run when the answer,
\* the result or the mission it closes over changed.
ResultsNextEffect(s) ==
  IF s.currentAnswer # None /\ s.answerResult # None /\ s.currentMission # None
  THEN updateProgressCall(s, "Results", 0)
  ELSE s

\* Variant: the timer effect restarts the timer and leaves the rest.
MissionEffects_timerOnly(old, s, missionSet, problemSet) ==
  LET idChanged == \/ (old.currentProblem = None) # (s.currentProblem = None)
                   \/ /\ old.currentProblem # None /\ s.currentProblem # None
                      /\ old.currentProblem[1].id # s.currentProblem[1].id
      s1 == IF idChanged THEN stopTimer(s) ELSE s
      s2 == IF (missionSet \/ problemSet)
               /\ s1.currentMission # None /\ s1.currentProblem = None
            THEN getCurrentProblemCall(s1, "view") ELSE s1
  IN IF idChanged /\ s2.currentProblem # None THEN startTimer(s2) ELSE s2

\* Mission: the effects that follow a change of the store's mission or
\* problem while the view is mounted.  old is the state before the change.
MissionEffects(old, s, missionSet, problemSet) ==
  LET missionChanged == missionSet /\ ~(old.currentMission = None /\ s.currentMission = None)
      problemChanged == problemSet /\ ~(old.currentProblem = None /\ s.currentProblem = None)
      idChanged == \/ (old.currentProblem = None) # (s.currentProblem = None)
                   \/ /\ old.currentProblem # None /\ s.currentProblem # None
                      /\ old.currentProblem[1].id # s.currentProblem[1].id
      s1 == IF idChanged THEN stopTimer(s) ELSE s
      s2 == IF (missionChanged \/ problemChanged)
               /\ s1.currentMission # None /\ s1.currentProblem = None
            THEN getCurrentProblemCall(s1, "view") ELSE s1
      s3 == IF idChanged /\ s2.currentProblem # None
            THEN resetAnswer(startTimer(resetTimer(s2))) ELSE s2
  IN s3

\* The effects of whichever page is mounted, after a store change.
PageEffects(old, s, missionSet, problemSet, answerSet) ==
  IF s.page = "mission" THEN MissionEffects(old, s, missionSet, problemSet)
  ELSE IF s.page = "results"
          /\ (answerSet \/ (missionSet /\ ~(old.currentMission = None /\ s.currentMission = None)))
  THEN ResultsNextEffect(s)
  ELSE s

MountDashboard(s) ==
  fetchCurrentMissionCall([s EXCEPT !.page = "dashboard"], "view")

\* Mission mount: the effects run in source order on the rendered values.
MountMission(s) ==
  LET s0 == [s EXCEPT !.page = "mission", !.showSubmitConfirm = FALSE,
                      !.isSubmittingAnswer = FALSE]
      s1 == fetchCurrentMissionCall(s0, "view")
      s2 == IF s.currentMission # None /\ s.currentProblem = None
            THEN getCurrentProblemCall(s1, "view") ELSE s1
      s3 == IF s.currentProblem # None
            THEN resetAnswer(startTimer(resetTimer(s2))) ELSE s2
  IN s3

\* Results: the branch the render takes, in source order.
ResultsBranch(s) ==
  IF s.routeAnswerId = 0 THEN "invalid"
  ELSE IF s.isProcessing \/ s.answerResult = None THEN "grading"
  ELSE IF s.error # None THEN "error"
  ELSE "result"

\* Dashboard: isStartingMission is true from the start of handleStartMission
\* to its finally block.
isStartingMission(s) ==
  \E r \in BagToSet(s.net) : r.kind = "start" /\ r.via = "Dashboard"

\* Dashboard.handleStartMission up to its await.  The handler closes over the
\* currentMission of the render it was created in; the request carries that
\* value (its id, 0 for null) to the continuation.
handleStartMission(s) ==
  LET held == IF s.currentMission = None THEN 0 ELSE s.currentMission[1].id
      s1 == startNewMissionCall(s, "Dashboard")
      r0 == Req(s, "start", 0, "Dashboard", 0)
  IN [s1 EXCEPT !.net = Put(Take(@, r0), [r0 EXCEPT !.nav = held])]

\* Dashboard.handleStartMission after its await: a rejection is logged; on
\* success it navigates if the currentMission it closed over is not null, to
\* the id of that value.
handleStartMissionAfter(s, r) ==
  IF r.st = "ok" /\ r.nav # 0
  THEN [MountMission(Leave(s)) EXCEPT
          !.last = Ev("navigate", r.nav, "mission", << >>)]
  ELSE s

MountResults(s, answerId) ==
  LET s0 == [s EXCEPT !.page = "results", !.routeAnswerId = answerId,
                      !.hasNextProblem = None]
      s1 == getAnswerResultCall(s0, answerId, "view")
  IN IF s.currentAnswer # None /\ s.answerResult # None /\ s.currentMission # None
     THEN updateProgressCall(s1, "Results", 0)
     ELSE s1

\* navigate(`/results/${answerId}`) under the route guards of App.
NavigateToResults(s, answerId) ==
  IF ~s.isAuthenticated THEN [Leave(s) EXCEPT !.page = "login"]
  ELSE IF s.page = "results" /\ s.routeAnswerId = answerId THEN s
  ELSE IF s.page = "results"
  THEN getAnswerResultCall([s EXCEPT !.routeAnswerId = answerId], answerId, "view")
  ELSE MountResults(Leave(s), answerId)

\* Variant: the App has no effect on isAuthenticated.
AppAuthEffect_never(old, s) == s

\* App: the effect on isAuthenticated ("reset every store on logout").
AppAuthEffect(old, s) ==
  IF old.isAuthenticated # s.isAuthenticated /\ ~s.isAuthenticated
  THEN resetMission(s) ELSE s

\* Header.handleLogout: logout(), navigate('/login'), then the App effect.
handleLogout(s) ==
  LET s1 == logout(s)
      s2 == [Leave(s1) EXCEPT !.page = "login"]
  IN AppAuthEffect(s, s2)

\* Variant: an empty current problem alone is taken for all-done.
MissionBranch_emptyIsDone(s) ==
  IF s.isLoading \/ s.currentMission = None THEN "loading"
  ELSE IF s.currentProblem = None THEN "allDone"
  ELSE "main"

\* What the Mission view renders for the stores' state: the spinner, the
\* all-done panel with the completion button, the problem-loading notice, or
\* the problem with the capture surface.
MissionBranch(s) ==
  IF s.isLoading \/ s.currentMission = None THEN "loading"
  ELSE IF s.currentProblem = None /\ s.missionProgress # None
          /\ s.missionProgress[1].progress_percentage = 100
  THEN "allDone"
  ELSE IF s.currentProblem = None THEN "noProblem"
  ELSE "main"

\* The Mission view renders the problem, the capture surface and the confirm
\* modal only in its last branch.
MissionMainBranch(s) ==
  /\ s.page = "mission" /\ ~s.authIsLoading
  /\ ~s.isLoading /\ s.currentMission # None /\ s.currentProblem # None

\* Mission.handleSubmitAnswer up to its first await.
handleSubmitAnswer(s) ==
  IF s.currentMission = None \/ s.currentProblem = None
     \/ Len(s.capturedImages) = 0
  THEN s
  ELSE LET s1 == stopTimer([s EXCEPT !.isSubmittingAnswer = TRUE])
       IN IF submitAnswerThrows(s1)
          THEN [startTimer(submitAnswerCall(s1, s.currentProblem[1].id, "Mission"))
                  EXCEPT !.isSubmittingAnswer = FALSE,
                         !.showSubmitConfirm = FALSE]
          ELSE submitAnswerCall(s1, s.currentProblem[1].id, "Mission")

\* The finally block of handleSubmitAnswer.
SubmitFinally(s, r) ==
  IF r.via = "Mission"
  THEN [s EXCEPT !.isSubmittingAnswer = FALSE, !.showSubmitConfirm = FALSE]
  ELSE s

\* Variant: the catch block does not restart the timer.
handleSubmitAnswerAfterSubmit_noRestart(s, r) ==
  IF r.st = "ok"
  THEN IF s.currentMission = None
       THEN NavigateToResults(SubmitFinally(s, r), r.val[1])
       ELSE updateProgressCall(s, r.via, r.val[1])
  ELSE SubmitFinally(s, r)

\* handleSubmitAnswer after submitAnswer settled (s: after the store's own
\* handling of response r).
handleSubmitAnswerAfterSubmit(s, r) ==
  IF r.st = "ok"
  THEN IF s.currentMission = None
       THEN NavigateToResults(SubmitFinally(s, r), r.val[1])
       ELSE updateProgressCall(s, r.via, r.val[1])
  ELSE SubmitFinally(startTimer(s), r)

\* Variant: a refresh that did not succeed is handled like a failed submit.
handleSubmitAnswerAfterProgress_strict(s, r) ==
  IF r.st = "ok" THEN NavigateToResults(SubmitFinally(s, r), r.nav)
  ELSE SubmitFinally(startTimer(s), r)

\* handleSubmitAnswer after updateProgress settled.
handleSubmitAnswerAfterProgress(s, r) ==
  NavigateToResults(SubmitFinally(s, r), r.nav)


\* ----------------------------------------------------------------- backend
\* What the backend can answer to request r in state s.  A request built
\* without a credential is rejected, except the login itself.
Outcomes(s, r) ==
  IF r.kind = "login" THEN {"ok", "fail"}
  ELSE IF ~r.tok THEN {"fail"}
  ELSE IF r.kind = "submit"
  THEN (IF Len(s.srvAnswers) < MaxAnswers THEN {"ok", "fail"} ELSE {"fail"})
  ELSE IF r.kind = "result"
  THEN (IF r.arg \in 1..Len(s.srvAnswers) THEN {"ok", "fail"} ELSE {"fail"})
  ELSE IF r.kind = "verify" THEN {"ok", "refused", "fail"}
  ELSE IF r.kind \in {"process", "addImages"}
  THEN (IF r.arg \in 1..Len(s.srvAnswers) THEN {"ok", "refused", "fail"}
        ELSE {"refused", "fail"})
  ELSE IF r.kind = "start"
  THEN (IF s.srvStatus = "none" THEN {"ok", "fail"} ELSE {"refused", "fail"})
  ELSE IF r.kind = "current"
  THEN (IF s.srvStatus = "in_progress" THEN {"ok", "fail"}
        ELSE {"refused", "fail"})
  ELSE IF s.srvStatus = "none" THEN {"fail"}
  ELSE IF r.kind = "complete"
  THEN (IF s.srvStatus = "in_progress" THEN {"ok", "refused", "fail"}
        ELSE {"refused", "fail"})
  ELSE IF r.kind = "next"
  THEN (IF s.srvCompleted < TotalProblems THEN {"ok", "fail"}
        ELSE {"refused", "fail"})
  ELSE {"ok", "fail"}

ServedData(s, r, st) ==
  IF st # "ok" THEN << >>
  ELSE IF r.kind = "submit" THEN << Len(s.srvAnswers) + 1 >>
  ELSE IF r.kind = "result" THEN s.srvAnswers[r.arg].score
  ELSE IF r.kind = "next" THEN << s.srvCompleted + 1 >>
  ELSE IF r.kind \in {"current", "progress"} THEN << s.srvCompleted >>
  ELSE IF r.kind = "start" THEN << 0, 1 >>
  ELSE IF r.kind = "complete"
  THEN << IF s.srvCompleted = TotalProblems THEN 1 ELSE 0, s.srvCompleted >>
  ELSE << >>

serve(s, r, st) ==
  LET s1 == [s EXCEPT !.net = Put(Take(@, r),
                         [r EXCEPT !.st = st, !.val = ServedData(s, r, st)])]
  IN IF r.kind = "submit" /\ st = "ok"
     THEN [s1 EXCEPT !.srvAnswers =
                        Append(@, [problem |-> r.arg, score |-> None])]
     ELSE IF r.kind = "start" /\ st = "ok"
     THEN [s1 EXCEPT !.srvStatus = "in_progress", !.srvCompleted = 0]
     ELSE IF r.kind = "complete" /\ st = "ok"
             /\ s.srvCompleted = TotalProblems
     THEN [s1 EXCEPT !.srvStatus = "completed"]
     ELSE s1

grade(s, answerId) ==
  [s EXCEPT !.srvAnswers[answerId].score = Some(GradedScore)]

\* ---------------------------------------------------------------- delivery
\* The response of r reaches the client: the store's handling, then the
\* continuation of the caller, then the effects of the mounted page.
\* The progress refresh that completeMission awaits is told apart from the
\* others in the record of the step: completeMission settles with it.
DeliveredOp(r) ==
  IF r.kind = "progress" /\ r.via = "complete" THEN "completeProgress"
  ELSE r.kind

deliver(s, r) ==
  LET s0 == [s EXCEPT !.net = Take(@, r),
                      !.last = Ev(DeliveredOp(r), r.arg, r.st, r.val)]
  IN
  IF r.kind = "login"
  THEN LET s1 == loginResp(s0, r)
       IN IF r.st = "ok" /\ s0.page = "login" THEN MountDashboard(s1)
          ELSE AppAuthEffect(s0, s1)
  ELSE IF r.kind = "verify"
  THEN AppAuthEffect(s0, verifyTokenResp(s0, r))
  ELSE IF r.kind = "submit"
  THEN LET s1 == submitAnswerResp(s0, r)
       IN IF r.via \in {"Mission", "MissionGone"}
          THEN handleSubmitAnswerAfterSubmit(s1, r) ELSE s1
  ELSE IF r.kind = "result"
  THEN PageEffects(s0, followUpCatch(getAnswerResultResp(s0, r), r),
                   FALSE, FALSE, r.st = "ok")
  ELSE IF r.kind = "process"
  THEN PageEffects(s0, processAnswerResp(s0, r), FALSE, FALSE, FALSE)
  ELSE IF r.kind = "addImages"
  THEN PageEffects(s0, addAnswerImagesResp(s0, r), FALSE, FALSE, FALSE)
  ELSE IF r.kind = "current"
  THEN PageEffects(s0, fetchCurrentMissionResp(s0, r),
                   r.st # "fail", r.st # "fail", FALSE)
  ELSE IF r.kind = "next"
  THEN PageEffects(s0, checkNextProblemEnd(getCurrentProblemResp(s0, r), r.via),
                   FALSE, r.st # "fail", FALSE)
  ELSE IF r.kind = "start"
  THEN LET s1 == PageEffects(s0, startNewMissionResp(s0, r),
                             r.st = "ok", r.st = "ok", FALSE)
       IN IF r.via = "Dashboard" THEN handleStartMissionAfter(s1, r) ELSE s1
  ELSE IF r.kind = "complete"
  THEN PageEffects(s0, completeMissionResp(s0, r),
                   r.st = "ok" /\ r.val[1] = 1, r.st = "ok" /\ r.val[1] = 1,
                   FALSE)
  ELSE \* "progress"
       LET s1 == updateProgressResp(s0, r)
       IN IF r.via = "Mission"
          THEN \* the view re-renders on the store's set() before the
               \* continuation of its handler runs
               handleSubmitAnswerAfterProgress(
                 PageEffects(s0, s1, FALSE, r.st = "ok", FALSE), r)
          ELSE IF r.via = "MissionGone"
          THEN handleSubmitAnswerAfterProgress(s1, r)
          ELSE IF r.via \in {"Results", "ResultsGone"}
          THEN LET via2 == IF r.via = "Results" THEN "ResultsNext"
                           ELSE "ResultsNextGone"
                   s2 == getCurrentProblemCall(s1, via2)
               IN PageEffects(s0,
                              IF s1.currentMission = None
                              THEN checkNextProblemEnd(s2, via2) ELSE s2,
                              FALSE, r.st = "ok", FALSE)
          ELSE PageEffects(s0, s1, FALSE, r.st = "ok", FALSE)

\* -------------------------------------------------------------------- Init
Previews == 1..(MaxStaged + MaxImages + StoreImages)

Init ==
  /\ isAuthenticated = FALSE /\ user = None /\ token = None
  /\ authIsLoading = FALSE /\ authError = None /\ authToken = None
  /\ currentMission = None /\ currentProblem = None /\ missionProgress = None
  /\ isLoading = FALSE /\ missionError = None /\ timeSpent = 0
  /\ startTime = None
  /\ currentAnswer = None /\ answerResult = None /\ capturedImages = << >>
  /\ isSubmitting = FALSE /\ isProcessing = FALSE /\ error = None
  /\ page = "login" /\ routeAnswerId = 0
  /\ showSubmitConfirm = FALSE /\ isSubmittingAnswer = FALSE
  /\ net = EmptyBag /\ timers = EmptyBag
  /\ revoked = [p \in Previews |-> 0] /\ nextImage = 1
  /\ srvAnswers = << >> /\ srvCompleted = 0 /\ now = InitialNow
  /\ last = Ev("init", 0, "", << >>) /\ lastResultReq = 0
  /\ ansFresh = TRUE /\ misFresh = TRUE /\ logins = 0 /\ removeCalls = 0
  /\ removeHits = 0 /\ resultCalls = 0 /\ srvStatus = "in_progress"
  /\ switched = "no" /\ hasNextProblem = None

\* ----------------------------------------------------------------- actions
\* The number of pending requests of one kind.
InFlight(kind) ==
  LET S == {r \in BagToSet(net) : r.kind = kind}
  IN IF S = {} THEN 0 ELSE BagCardinality([r \in S |-> CopiesIn(r, net)])

Room(n) == Pending(Cur) + n <= MaxInFlight
Fits(s) == Pending(s) <= MaxInFlight

\* Login.handleSubmit with both fields filled in.
LoginSubmit ==
  /\ page = "login" /\ ~authIsLoading /\ logins < MaxLogins /\ Room(1)
  /\ Apply(Did(loginCall(Cur), "loginCall", 0))

\* Header.handleLogout (the header is part of every authenticated page).
HandleLogout ==
  /\ isAuthenticated /\ ~authIsLoading /\ page \in {"dashboard", "mission", "results"}
  /\ Apply(Did(handleLogout(Cur), "logout", 0))

GoDashboard ==
  /\ isAuthenticated /\ ~authIsLoading /\ page \in {"mission", "results"}
  /\ Room(1)
  /\ Apply(Did(MountDashboard(Leave(Cur)), "navigate", 0))

GoMission ==
  /\ isAuthenticated /\ ~authIsLoading /\ page \in {"dashboard", "results"}
  /\ Fits(MountMission(Leave(Cur)))
  /\ Apply(Did(MountMission(Leave(Cur)), "navigate", 0))

\* Opening /results/<answerId>: the Results view's load effect.
GoResults ==
  \E a \in 1..MaxAnswers :
    /\ isAuthenticated /\ ~authIsLoading
    /\ page \in {"dashboard", "mission", "results"}
    /\ ~(page = "results" /\ routeAnswerId = a)
    /\ Fits(NavigateToResults(Cur, a))
    /\ Apply(Did(NavigateToResults(Cur, a), "goResults", a))

\* The capture surface stages a new image with a fresh preview.
AddImage ==
  /\ MissionMainBranch(Cur) /\ ~showSubmitConfirm /\ nextImage <= MaxImages
  /\ Apply(Did([addCapturedImage(Cur, nextImage) EXCEPT !.nextImage = @ + 1],
               "addCapturedImage", nextImage))

RemoveImage ==
  \E i \in 0..MaxImages :
    /\ MissionMainBranch(Cur) /\ ~showSubmitConfirm
    /\ i < Len(capturedImages)
    /\ Apply(Did(removeCapturedImage(Cur, i), "removeCapturedImage", i))

OpenSubmitConfirm ==
  /\ MissionMainBranch(Cur) /\ ~showSubmitConfirm
  /\ Len(capturedImages) > 0 /\ ~isSubmittingAnswer
  /\ Apply(Did([Cur EXCEPT !.showSubmitConfirm = TRUE], "confirm", 0))

CloseSubmitConfirm ==
  /\ MissionMainBranch(Cur) /\ showSubmitConfirm
  /\ Apply(Did([Cur EXCEPT !.showSubmitConfirm = FALSE], "confirm", 0))

\* The modal's confirm action: Mission.handleSubmitAnswer.
ConfirmSubmit ==
  /\ MissionMainBranch(Cur) /\ showSubmitConfirm /\ Room(1)
  /\ Len(srvAnswers) + InFlight("submit") < MaxAnswers
  /\ Apply(Did(handleSubmitAnswer(Cur), "handleSubmitAnswer", 0))

\* window 'beforeunload'
BeforeUnload ==
  /\ page # "closed" /\ Len(capturedImages) > 0
  /\ Apply(Did([clearCapturedImages(Cur) EXCEPT !.page = "closed",
                   !.net = EmptyBag, !.timers = EmptyBag],
               "clearCapturedImages", 0))

PollTick ==
  \E a \in BagToSet(timers) :
    Apply([pollTick(Cur, a) EXCEPT !.last = Ev("pollTick", a, "", << >>)])

Serve ==
  \E r \in BagToSet(net) :
    /\ r.st = "sent"
    /\ \E st \in Outcomes(Cur, r) : Apply(Did(serve(Cur, r, st), "backend", 0))

Deliver ==
  \E r \in BagToSet(net) :
    /\ r.st # "sent"
    /\ Apply(deliver(Cur, r))

\* The backend's grading finishes for one answer.
Grade ==
  \E a \in 1..Len(srvAnswers) :
    /\ srvAnswers[a].score = None
    /\ Apply(Did(grade(Cur, a), "backend", 0))

\* The backend counts the current problem as done once it holds an answer
\* for it.
Advance ==
  /\ srvCompleted < TotalProblems
  /\ \E a \in 1..Len(srvAnswers) : srvAnswers[a].problem = srvCompleted + 1
  /\ Apply(Did([Cur EXCEPT !.srvCompleted = @ + 1], "backend", 0))

Next ==
  \/ LoginSubmit \/ HandleLogout \/ GoDashboard \/ GoMission \/ GoResults
  \/ AddImage \/ RemoveImage \/ OpenSubmitConfirm \/ CloseSubmitConfirm
  \/ ConfirmSubmit \/ BeforeUnload
  \/ PollTick \/ Serve \/ Deliver \/ Grade

Spec == Init /\ [][Next]_vars


\* ------------------------------------------------ the answer store directly
\* The answer store driven through its own interface by any caller, in a
\* logged-in session with no view mounted.
InitStore ==
  /\ isAuthenticated = TRUE /\ user = Some(UserId) /\ token = Some("jwt")
  /\ authIsLoading = FALSE /\ authError = None /\ authToken = Some("jwt")
  /\ currentMission = None /\ currentProblem = None /\ missionProgress = None
  /\ isLoading = FALSE /\ missionError = None /\ timeSpent = 0
  /\ startTime = None
  /\ currentAnswer = None /\ answerResult = None /\ capturedImages = << >>
  /\ isSubmitting = FALSE /\ isProcessing = FALSE /\ error = None
  /\ page = "none" /\ routeAnswerId = 0
  /\ showSubmitConfirm = FALSE /\ isSubmittingAnswer = FALSE
  /\ net = EmptyBag /\ timers = EmptyBag
  /\ revoked = [p \in Previews |-> 0] /\ nextImage = 1
  /\ srvAnswers = << >> /\ srvCompleted = 0 /\ now = InitialNow
  /\ last = Ev("init", 0, "", << >>) /\ lastResultReq = 0
  /\ ansFresh = TRUE /\ misFresh = TRUE /\ logins = 1 /\ removeCalls = 0
  /\ removeHits = 0 /\ resultCalls = 0 /\ srvStatus = "in_progress"
  /\ switched = "no" /\ hasNextProblem = None

StoreRoom == Pending(Cur) + 1 <= StoreInFlight

StoreAddCapturedImage ==
  /\ nextImage <= StoreImages
  /\ Apply(Did([addCapturedImage(Cur, nextImage) EXCEPT !.nextImage = @ + 1],
               "call", 0))

StoreRemoveCapturedImage ==
  \E i \in 0..StoreImages :
    Apply(Did(removeCapturedImage(Cur, i), "call", 0))

StoreClearCapturedImages ==
  Apply(Did(clearCapturedImages(Cur), "clearCapturedImages", 0))

StoreReset == Apply(Did(resetAnswer(Cur), "reset", 0))

StoreSubmitAnswer ==
  \E p \in {1} :
    /\ \/ submitAnswerThrows(Cur)
       \/ /\ StoreRoom
          /\ Len(srvAnswers) + InFlight("submit") < StoreAnswers
    /\ Apply([submitAnswerCall(Cur, p, "store") EXCEPT
                !.last = Ev("submitAnswer", p,
                            IF submitAnswerThrows(Cur) THEN "throws" ELSE "",
                            << >>)])

StoreGetAnswerResult ==
  \E a \in 1..StoreAnswers :
    /\ StoreRoom
    /\ Apply(Did(getAnswerResultCall(Cur, a, "store"), "call", 0))

NextStore ==
  \/ StoreAddCapturedImage \/ StoreRemoveCapturedImage
  \/ StoreClearCapturedImages \/ StoreReset
  \/ StoreSubmitAnswer \/ StoreGetAnswerResult
  \/ PollTick \/ Serve \/ Deliver \/ Grade

SpecStore == InitStore /\ [][NextStore]_vars

\* ---------------------------------------------------------- staging alone
\* Only addCapturedImage and removeCapturedImage, with the calls counted.
StagingAdd ==
  /\ nextImage <= MaxStaged
  /\ Apply(Did([addCapturedImage(Cur, nextImage) EXCEPT !.nextImage = @ + 1],
               "addCapturedImage", nextImage))

StagingRemove ==
  \E i \in -1..MaxStaged :
    /\ removeCalls < MaxRemoveCalls
    /\ Apply(Did([removeCapturedImage(Cur, i) EXCEPT
                    !.removeCalls = @ + 1,
                    !.removeHits = IF i >= 0 /\ i < Len(capturedImages)
                                   THEN @ + 1 ELSE @],
                 "removeCapturedImage", i))

NextStaging == StagingAdd \/ StagingRemove

SpecStaging == InitStore /\ [][NextStaging]_vars

\* ------------------------------------------------------ grading, liveness
\* One answer is submitted and awaits grading; callers ask for its result a
\* bounded number of times, no fetch fails, and the backend grades it.
InitLive ==
  /\ isAuthenticated = TRUE /\ user = Some(UserId) /\ token = Some("jwt")
  /\ authIsLoading = FALSE /\ authError = None /\ authToken = Some("jwt")
  /\ currentMission = None /\ currentProblem = None /\ missionProgress = None
  /\ isLoading = FALSE /\ missionError = None /\ timeSpent = 0
  /\ startTime = None
  /\ currentAnswer = None /\ answerResult = None /\ capturedImages = << >>
  /\ isSubmitting = FALSE /\ isProcessing = FALSE /\ error = None
  /\ page = "none" /\ routeAnswerId = 0
  /\ showSubmitConfirm = FALSE /\ isSubmittingAnswer = FALSE
  /\ net = EmptyBag /\ timers = EmptyBag
  /\ revoked = [p \in Previews |-> 0] /\ nextImage = 1
  /\ srvAnswers = [i \in 1..LiveAnswers |-> [problem |-> 1, score |-> None]]
  /\ srvCompleted = 0 /\ now = InitialNow
  /\ last = Ev("init", 0, "", << >>) /\ lastResultReq = 0
  /\ ansFresh = TRUE /\ misFresh = TRUE /\ logins = 1 /\ removeCalls = 0
  /\ removeHits = 0 /\ resultCalls = 0 /\ srvStatus = "in_progress"
  /\ switched = "no" /\ hasNextProblem = None

LiveGetAnswerResult ==
  \E a \in 1..Len(srvAnswers) :
    /\ Room(1) /\ resultCalls < MaxResultCalls
    /\ Apply(Did([getAnswerResultCall(Cur, a, "store") EXCEPT
                    !.resultCalls = @ + 1],
                 "getAnswerResult", a))

ServeOk ==
  \E r \in BagToSet(net) :
    /\ r.st = "sent" /\ "ok" \in Outcomes(Cur, r)
    /\ Apply(Did(serve(Cur, r, "ok"), "backend", 0))

\* ------------------------------------------- requests about a stored answer
\* The answer store's operations on the answers the backend holds from the
\* start, called by any caller with a bounded number of activities pending;
\* the caller may also stage an image when none is staged and submit one
\* more answer.
FollowRoom == Pending(Cur) + 1 <= FollowInFlight

FollowProcessAnswer ==
  \E a \in 1..LiveAnswers :
    /\ FollowRoom
    /\ Apply(Did(processAnswerCall(Cur, a, "store"), "call", a))

FollowAddAnswerImages ==
  \E a \in 1..LiveAnswers :
    /\ FollowRoom
    /\ Apply(Did(addAnswerImagesCall(Cur, a, "store"), "call", a))

FollowGetAnswerResult ==
  \E a \in 1..LiveAnswers :
    /\ FollowRoom
    /\ Apply(Did(getAnswerResultCall(Cur, a, "store"), "call", a))

FollowStage ==
  /\ nextImage <= StoreImages
  /\ capturedImages = << >>
  /\ Apply(Did([addCapturedImage(Cur, nextImage) EXCEPT !.nextImage = @ + 1],
               "call", 0))

FollowSubmitAnswer ==
  \E p \in {1} :
    /\ \/ submitAnswerThrows(Cur)
       \/ /\ FollowRoom
          /\ Len(srvAnswers) + InFlight("submit") < LiveAnswers + 1
    /\ Apply([submitAnswerCall(Cur, p, "store") EXCEPT
                !.last = Ev("submitAnswer", p,
                            IF submitAnswerThrows(Cur) THEN "throws" ELSE "",
                            << >>)])

NextFollowUp ==
  \/ FollowProcessAnswer \/ FollowAddAnswerImages \/ FollowGetAnswerResult
  \/ FollowStage \/ FollowSubmitAnswer
  \/ PollTick \/ Serve \/ Deliver \/ Grade

SpecFollowUp == InitLive /\ [][NextFollowUp]_vars

NextLive == LiveGetAnswerResult \/ PollTick \/ ServeOk \/ Deliver \/ Grade

SpecLive ==
  /\ InitLive /\ [][NextLive]_vars
  /\ WF_vars(PollTick) /\ WF_vars(ServeOk) /\ WF_vars(Deliver)
  /\ WF_vars(Grade)


\* ---------------------------------------------- the mission store directly
\* The mission store driven through its own interface by any caller, in a
\* logged-in session with no view mounted; the backend holds no mission at
\* first.
InitMission ==
  /\ isAuthenticated = TRUE /\ user = Some(UserId) /\ token = Some("jwt")
  /\ authIsLoading = FALSE /\ authError = None /\ authToken = Some("jwt")
  /\ currentMission = None /\ currentProblem = None /\ missionProgress = None
  /\ isLoading = FALSE /\ missionError = None /\ timeSpent = 0
  /\ startTime = None
  /\ currentAnswer = None /\ answerResult = None /\ capturedImages = << >>
  /\ isSubmitting = FALSE /\ isProcessing = FALSE /\ error = None
  /\ page = "none" /\ routeAnswerId = 0
  /\ showSubmitConfirm = FALSE /\ isSubmittingAnswer = FALSE
  /\ net = EmptyBag /\ timers = EmptyBag
  /\ revoked = [p \in Previews |-> 0] /\ nextImage = 1
  /\ srvAnswers = << >> /\ srvCompleted = 0 /\ now = InitialNow
  /\ last = Ev("init", 0, "", << >>) /\ lastResultReq = 0
  /\ ansFresh = TRUE /\ misFresh = TRUE /\ logins = 1 /\ removeCalls = 0
  /\ removeHits = 0 /\ resultCalls = 0 /\ srvStatus = "none"
  /\ switched = "no" /\ hasNextProblem = None

MissionRoom == Pending(Cur) + 1 <= MissionInFlight

MissionFetchCurrent ==
  /\ MissionRoom
  /\ Apply(Did(fetchCurrentMissionCall(Cur, "store"), "call", 0))

MissionStartNew ==
  /\ MissionRoom
  /\ Apply(Did(startNewMissionCall(Cur, "store"), "call", 0))

MissionGetCurrentProblem ==
  /\ MissionRoom
  /\ Apply(Did(getCurrentProblemCall(Cur, "store"), "call", 0))

MissionUpdateProgress ==
  /\ MissionRoom
  /\ Apply(Did(updateProgressCall(Cur, "store", 0), "call", 0))

\* completeMission(): without a mission it returns at once.
MissionComplete ==
  /\ MissionRoom
  /\ Apply([completeMissionCall(Cur, "store") EXCEPT
              !.last = Ev("completeMission", 0,
                          IF currentMission = None THEN "returns" ELSE "",
                          << >>)])

MissionReset == Apply(Did(resetMission(Cur), "call", 0))

MissionStartTimer == Apply(Did(startTimer(Cur), "call", 0))

MissionStopTimer == Apply(Did(stopTimer(Cur), "call", 0))

\* The backend counts the current problem of the active mission as done.
Solve ==
  /\ srvStatus = "in_progress" /\ srvCompleted < TotalProblems
  /\ Apply(Did([Cur EXCEPT !.srvCompleted = @ + 1], "backend", 0))

NextMission ==
  \/ MissionFetchCurrent \/ MissionStartNew \/ MissionGetCurrentProblem
  \/ MissionUpdateProgress \/ MissionComplete \/ MissionReset
  \/ MissionStartTimer \/ MissionStopTimer
  \/ Solve \/ Serve \/ Deliver

SpecMission == InitMission /\ [][NextMission]_vars

\* The same store with callers that leave fewer requests pending at a time.
CalmRoom == Pending(Cur) + 1 <= CalmInFlight

NextMissionCalm ==
  \/ (CalmRoom /\ MissionFetchCurrent)
  \/ (CalmRoom /\ MissionStartNew)
  \/ (CalmRoom /\ MissionGetCurrentProblem)
  \/ (CalmRoom /\ MissionUpdateProgress)
  \/ (CalmRoom /\ MissionComplete)
  \/ MissionReset
  \/ MissionStartTimer \/ MissionStopTimer
  \/ Solve \/ Serve \/ Deliver

SpecMissionCalm == InitMission /\ [][NextMissionCalm]_vars


\* ------------------------------------------------------- the timer alone
\* Date.now() moves on between two calls.
Tick ==
  /\ now + TickMs <= InitialNow + MaxTicks * TickMs
  /\ Apply([Cur EXCEPT !.now = @ + TickMs])

\* What a call found: whether the timer ran, and the reading at that instant.
Found(s, op) ==
  Ev(op, 0, IF TimerRunning(s) THEN "running" ELSE "stopped",
     << getTimeSpent(s) >>)

TimerStart == Apply([startTimer(Cur) EXCEPT !.last = Found(Cur, "startTimer")])

TimerStop == Apply([stopTimer(Cur) EXCEPT !.last = Found(Cur, "stopTimer")])

TimerReset == Apply([resetTimer(Cur) EXCEPT !.last = Found(Cur, "resetTimer")])

\* getTimeSpent() reads the store with get() and returns; `last` holds the
\* value returned.
TimerRead == Apply([Cur EXCEPT !.last = Found(Cur, "getTimeSpent")])

NextTimer == Tick \/ TimerStart \/ TimerStop \/ TimerReset \/ TimerRead

SpecTimer == InitMission /\ [][NextTimer]_vars

\* ------------------------------------------- the Mission view and the clock
\* No request is in flight: the user of SpecView navigates and submits, and
\* the caller of SpecConverge calls, only then.
Quiet == net = EmptyBag

ViewTick ==
  /\ now + TickMs <= InitialNow + ViewTicks * TickMs
  /\ Apply([Cur EXCEPT !.now = @ + TickMs])

NextView ==
  \/ (Quiet /\ LoginSubmit)
  \/ (Quiet /\ GoDashboard)
  \/ (Quiet /\ GoMission)
  \/ (Quiet /\ ConfirmSubmit)
  \/ AddImage \/ OpenSubmitConfirm
  \/ Serve \/ Deliver \/ Solve \/ ViewTick

SpecView == Init /\ [][NextView]_vars

\* ------------------------------------------------- the auth store directly
\* The auth store driven through its own interface by any caller, from the
\* start of the application with or without a stored credential.  The App's
\* effect on isAuthenticated runs with every change.
InitAuth ==
  /\ isAuthenticated = FALSE /\ user = None /\ authToken \in {None, Some("jwt")}
  /\ token = authToken
  /\ authIsLoading = FALSE /\ authError = None
  /\ currentMission = None /\ currentProblem = None /\ missionProgress = None
  /\ isLoading = FALSE /\ missionError = None /\ timeSpent = 0
  /\ startTime = None
  /\ currentAnswer = None /\ answerResult = None /\ capturedImages = << >>
  /\ isSubmitting = FALSE /\ isProcessing = FALSE /\ error = None
  /\ page = "none" /\ routeAnswerId = 0
  /\ showSubmitConfirm = FALSE /\ isSubmittingAnswer = FALSE
  /\ net = EmptyBag /\ timers = EmptyBag
  /\ revoked = [p \in Previews |-> 0] /\ nextImage = 1
  /\ srvAnswers = << >> /\ srvCompleted = 0 /\ now = InitialNow
  /\ last = Ev("init", 0, "", << >>) /\ lastResultReq = 0
  /\ ansFresh = TRUE /\ misFresh = TRUE /\ logins = 0 /\ removeCalls = 0
  /\ removeHits = 0 /\ resultCalls = 0 /\ srvStatus = "in_progress"
  /\ switched = "no" /\ hasNextProblem = None

AuthRoom == Pending(Cur) + 1 <= AuthInFlight

AuthLogin ==
  /\ AuthRoom /\ logins + InFlight("login") < MaxLogins
  /\ Apply(Did(loginCall(Cur), "call", 0))

AuthLogout == Apply(Did(AppAuthEffect(Cur, logout(Cur)), "logout", 0))

AuthVerifyToken ==
  /\ authToken = None \/ AuthRoom
  /\ Apply([verifyTokenCall(Cur) EXCEPT
              !.last = Ev("verifyToken", 0,
                          IF authToken = None THEN "noToken" ELSE "", << >>)])

NextAuth == AuthLogin \/ AuthLogout \/ AuthVerifyToken \/ Serve \/ Deliver

SpecAuth == InitAuth /\ [][NextAuth]_vars

\* ------------------------------------------ from the Mission view to Results
\* The user logs in, opens the Mission view, stages an image and submits
\* when nothing is in flight; the Results view loads the answer and polls
\* until the backend has graded it.  The backend counts problems as done at
\* any moment.
NextResults ==
  \/ (Quiet /\ LoginSubmit)
  \/ (Quiet /\ GoMission)
  \/ (Quiet /\ ConfirmSubmit)
  \/ AddImage \/ OpenSubmitConfirm
  \/ Serve \/ Deliver \/ Solve \/ Grade \/ PollTick

SpecResults == Init /\ [][NextResults]_vars

\* ------------------------------------------------- a session and its logout
\* The user logs in and moves between the Dashboard and the Mission view
\* when nothing is in flight, and logs out at any moment.
NextSession ==
  \/ (Quiet /\ LoginSubmit)
  \/ (Quiet /\ GoDashboard)
  \/ (Quiet /\ GoMission)
  \/ HandleLogout
  \/ Serve \/ Deliver \/ ViewTick

SpecSession == Init /\ [][NextSession]_vars

\* ------------------------------------------------ a mission from the Dashboard
\* The user logs in, starts missions from the Dashboard and moves between
\* the Dashboard and the Mission view; the backend holds no mission or an
\* active one at first.
InitDashboard ==
  /\ isAuthenticated = FALSE /\ user = None /\ token = None
  /\ authIsLoading = FALSE /\ authError = None /\ authToken = None
  /\ currentMission = None /\ currentProblem = None /\ missionProgress = None
  /\ isLoading = FALSE /\ missionError = None /\ timeSpent = 0
  /\ startTime = None
  /\ currentAnswer = None /\ answerResult = None /\ capturedImages = << >>
  /\ isSubmitting = FALSE /\ isProcessing = FALSE /\ error = None
  /\ page = "login" /\ routeAnswerId = 0
  /\ showSubmitConfirm = FALSE /\ isSubmittingAnswer = FALSE
  /\ net = EmptyBag /\ timers = EmptyBag
  /\ revoked = [p \in Previews |-> 0] /\ nextImage = 1
  /\ srvAnswers = << >> /\ srvCompleted = 0 /\ now = InitialNow
  /\ last = Ev("init", 0, "", << >>) /\ lastResultReq = 0
  /\ ansFresh = TRUE /\ misFresh = TRUE /\ logins = 0 /\ removeCalls = 0
  /\ removeHits = 0 /\ resultCalls = 0
  /\ srvStatus \in {"none", "in_progress"}
  /\ switched = "no" /\ hasNextProblem = None

\* A start button of the Dashboard's main branch is pressed.
DashStartMission ==
  /\ page = "dashboard" /\ isAuthenticated /\ ~authIsLoading
  /\ ~(isLoading /\ currentMission = None) /\ ~isStartingMission(Cur)
  /\ Room(1)
  /\ Apply(Did(handleStartMission(Cur), "handleStartMission", 0))

NextDashboard ==
  \/ (Quiet /\ LoginSubmit)
  \/ DashStartMission
  \/ (Quiet /\ GoDashboard)
  \/ (Quiet /\ GoMission)
  \/ Solve \/ Serve \/ Deliver

SpecDashboard == InitDashboard /\ [][NextDashboard]_vars

\* ------------------------------------------------- a mission worked through
\* A caller that awaits every call: it starts a mission, and for the current
\* problem stages an image, submits, and refreshes the progress; it may ask
\* for the current mission at any quiet moment and try to complete whenever
\* its progress is up to date.  The
\* backend accepts every request and counts an accepted answer for the
\* current problem as that problem done.
Answered(s) ==
  /\ s.currentProblem # None
  /\ \E a \in 1..Len(s.srvAnswers) :
       s.srvAnswers[a].problem = s.currentProblem[1].id

ConvStart ==
  /\ Quiet /\ currentMission = None /\ srvStatus = "none"
  /\ Apply(Did(startNewMissionCall(Cur, "store"), "call", 0))

ConvStage ==
  /\ Quiet /\ currentProblem # None /\ ~Answered(Cur)
  /\ capturedImages = << >> /\ nextImage <= TotalProblems
  /\ Apply(Did([addCapturedImage(Cur, nextImage) EXCEPT !.nextImage = @ + 1],
               "call", 0))

ConvSubmit ==
  /\ Quiet /\ currentMission # None /\ currentProblem # None
  /\ ~Answered(Cur) /\ Len(capturedImages) > 0
  /\ Apply(Did(submitAnswerCall(Cur, currentProblem[1].id, "store"),
               "call", 0))

ConvRefresh ==
  /\ Quiet /\ currentMission # None /\ Answered(Cur)
  /\ Apply(Did(updateProgressCall(resetAnswer(Cur), "store", 0), "call", 0))

ConvFetch ==
  /\ Quiet /\ currentMission # None
  /\ Apply(Did(fetchCurrentMissionCall(Cur, "store"), "call", 0))

ConvComplete ==
  /\ Quiet /\ currentMission # None /\ ~Answered(Cur)
  /\ currentMission[1].status # "completed"
  /\ Apply(Did(completeMissionCall(Cur, "store"), "completeMission", 0))

counted(s, r) ==
  IF r.kind = "submit" /\ r.arg = s.srvCompleted + 1
  THEN [s EXCEPT !.srvCompleted = @ + 1] ELSE s

\* The backend answers without a failure: it accepts what it can accept and
\* says so when there is nothing to return.
Answer(s, r) == IF "ok" \in Outcomes(s, r) THEN "ok" ELSE "refused"

ServeCorrect ==
  \E r \in BagToSet(net) :
    /\ r.st = "sent" /\ Answer(Cur, r) \in Outcomes(Cur, r)
    /\ Apply(Did(counted(serve(Cur, r, Answer(Cur, r)), r), "backend", 0))

NextConverge ==
  \/ ConvStart \/ ConvStage \/ ConvSubmit \/ ConvRefresh \/ ConvFetch
  \/ ConvComplete \/ MissionStartTimer \/ MissionStopTimer
  \/ ServeCorrect \/ Deliver

SpecConverge ==
  /\ InitMission /\ [][NextConverge]_vars
  /\ SF_vars(ConvStart) /\ SF_vars(ConvStage) /\ SF_vars(ConvSubmit)
  /\ SF_vars(ConvRefresh) /\ SF_vars(ConvComplete)
  /\ WF_vars(ServeCorrect) /\ WF_vars(Deliver)

\* ------------------------------------------------------------- properties
Range(seq) == {seq[i] : i \in 1..Len(seq)}

\* C1: at no time are two submit requests in flight at once, whatever the
\* Mission view does (activating the confirm action twice included).
C1_OneSubmitInFlight == InFlight("submit") <= 1

\* C2: a successful fetch whose answer has an unset score leaves the store
\* awaiting grading (currentAnswer is that answer, isProcessing is true) and
\* schedules exactly one further fetch of the same answer id; when that timer
\* fires, exactly one result request for the same id is issued.  There is no
\* count of fetches in the store, so this repeats without bound.
C2_PollingContract ==
  [][ /\ (last'.op = "result" /\ last'.st = "ok" /\ last'.val = None)
         => /\ isProcessing'
            /\ currentAnswer' = Some([id |-> last'.arg, score |-> None])
            /\ timers' = Put(timers, last'.arg)
            /\ InFlight("result")' = InFlight("result") - 1
      /\ (last'.op = "pollTick")
         => /\ timers' = Take(timers, last'.arg)
            /\ net' = Put(net, Req(Cur, "result", last'.arg, "poll", 0))
    ]_vars

\* C2: a poll fetch answered with an unset score has re-armed the timer.
C2_Witness ==
  /\ last.op = "result" /\ last.st = "ok" /\ last.val = None
  /\ isProcessing /\ BagIn(last.arg, timers) /\ lastResultReq = last.arg
  /\ srvAnswers[last.arg].score # None

\* C3: once a fetch has returned a score, or has failed, isProcessing is false
\* and no further fetch of that answer is scheduled by the store.
C3_NoPollAfterSettled ==
  (last.op = "result" /\ (last.st # "ok" \/ last.val # None))
    => (~isProcessing /\ ~BagIn(last.arg, timers))

\* C4: once getAnswerResult has been called for a submitted answer, the store
\* eventually is Graded (the current answer has a score, the result is set,
\* isProcessing is false) with no poll timer and no result fetch pending.
Graded ==
  /\ currentAnswer # None /\ currentAnswer[1].score # None
  /\ answerResult # None /\ ~isProcessing
GradedQuiet == Graded /\ timers = EmptyBag /\ InFlight("result") = 0
C4_GradingLiveness == (lastResultReq # 0) ~> GradedQuiet

\* C4: Graded was reached through polling: the last call of a caller was
\* answered with an unset score, and the poll chain fetched the score.
C4_Witness ==
  /\ GradedQuiet /\ resultCalls = MaxResultCalls
  /\ last.op = "result" /\ last.val # None
  /\ error = None

\* C5: after logout no response of a result fetch sets currentAnswer or
\* answerResult, or sets isProcessing to true.
C5_NoRepopulationAfterLogout ==
  [][ (~isAuthenticated /\ ~isAuthenticated' /\ logins > 0
       /\ last'.op = "result")
      => /\ currentAnswer' = currentAnswer
         /\ answerResult' = answerResult
         /\ (isProcessing' => isProcessing)
    ]_vars

\* C6: once logout has been processed, the stored credential is absent, the
\* auth store is unauthenticated with null user and token, and the mission
\* store is in its initial state and the answer store holds no current answer,
\* no result and no staged image.
MissionStoreInitial ==
  /\ currentMission = None /\ currentProblem = None /\ missionProgress = None
  /\ ~isLoading /\ missionError = None /\ timeSpent = 0 /\ startTime = None
AnswerStoreCleared ==
  currentAnswer = None /\ answerResult = None /\ capturedImages = << >>
C6_LogoutClearsAll ==
  (last.op = "logout")
    => /\ authToken = None
       /\ ~isAuthenticated /\ user = None /\ token = None
       /\ MissionStoreInitial
       /\ AnswerStoreCleared

\* C7: from a store's reset() until its next request, the store's data stay
\* null; and a non-null currentAnswer has the id of the most recent
\* getAnswerResult call.
C7_NoStaleResponseApplied ==
  /\ ansFresh => (currentAnswer = None /\ answerResult = None)
  /\ misFresh => (currentMission = None /\ currentProblem = None
                  /\ missionProgress = None)
  /\ currentAnswer # None => currentAnswer[1].id = lastResultReq

\* C8: submitAnswer with nothing staged issues no request, sets the store's
\* error to the fixed validation message, rejects, and leaves isSubmitting,
\* capturedImages, currentAnswer and answerResult as they were.
C8_EmptySubmitRejected ==
  [][ (last'.op = "submitAnswer" /\ Len(capturedImages) = 0)
      => /\ last'.st = "throws"
         /\ net' = net
         /\ error' = Some(MsgNeedImage)
         /\ UNCHANGED << isSubmitting, capturedImages, currentAnswer,
                         answerResult >>
    ]_vars

\* C8: an empty submit was rejected while an answer was loaded and awaited
\* grading.
C8_Witness ==
  /\ last.op = "submitAnswer" /\ last.st = "throws"
  /\ error = Some(MsgNeedImage) /\ capturedImages = << >>
  /\ currentAnswer # None /\ isProcessing

\* C9 as stated: the staged count is the number of addCapturedImage calls
\* minus the number of removeCapturedImage calls.
C9_CountByCalls == Len(capturedImages) = (nextImage - 1) - removeCalls

\* C9: the staged count is the number of additions minus the number of
\* removeCapturedImage calls whose index is a position of the list;
\* such a call removes exactly the image at that position and keeps the
\* order of the others, and a call with any other index changes nothing.
C9_CountByPositions ==
  /\ [](Len(capturedImages) = (nextImage - 1) - removeHits)
  /\ [][ (last'.op = "removeCapturedImage")
         => LET i == last'.arg
                n == Len(capturedImages)
            IN IF i >= 0 /\ i < n
               THEN /\ Len(capturedImages') = n - 1
                    /\ \A k \in 1..(n - 1) :
                         capturedImages'[k] =
                           capturedImages[IF k <= i THEN k ELSE k + 1]
               ELSE capturedImages' = capturedImages
       ]_vars

\* C9: a middle image was removed and the others kept their order, after a
\* call with an index outside the list.
C9_Witness ==
  /\ last.op = "removeCapturedImage" /\ last.arg = 1
  /\ capturedImages = << 1, 3 >>
  /\ removeHits = 1 /\ removeCalls = 2

\* C10: every preview is released at most once, and the previews not yet
\* released are exactly those of the images now staged.
C10_PreviewsReleasedOnce ==
  \A p \in Previews :
    /\ revoked[p] <= 1
    /\ (p < nextImage) => ((revoked[p] = 0) <=> (p \in Range(capturedImages)))


\* C11: after completeMission() has resolved on a confirmed completion (its
\* trailing progress refresh has returned), the store holds the mission
\* with status completed and completed_problems = total_problems, and the
\* progress snapshot holds the same counts.
C11_CompletedAfterSuccess ==
  (last.op = "completeProgress")
    => /\ currentMission # None
       /\ currentMission[1].status = "completed"
       /\ currentMission[1].completed_problems = currentMission[1].total_problems
       /\ missionProgress # None
       /\ missionProgress[1].total_problems = currentMission[1].total_problems
       /\ missionProgress[1].completed_problems = currentMission[1].total_problems

\* C12: whenever the response to completeMission() does not confirm the
\* completion, the store's error is set, isLoading is false, and
\* currentMission, currentProblem and missionProgress are unchanged.
C12_FailsUnlessConfirmed ==
  [][ (last'.op = "complete" /\ ~(last'.st = "ok" /\ last'.val[1] = 1))
      => /\ missionError' # None
         /\ ~isLoading'
         /\ UNCHANGED << currentMission, currentProblem, missionProgress >>
    ]_vars

\* C14: a successful startNewMission response sets the mission and the first
\* problem of the response and a progress snapshot computed from them, with
\* progress_percentage 0, and issues no request.
C14_StartSynthesizesProgress ==
  [][ (last'.op = "start" /\ last'.st = "ok")
      => LET mission == MissionOf(last'.val[1])
             first_problem == Problem(last'.val[2])
         IN /\ currentMission' = Some(mission)
            /\ currentProblem' = Some(first_problem)
            /\ missionProgress' =
                 Some([mission_id |-> mission.id,
                       total_problems |-> mission.total_problems,
                       completed_problems |-> mission.completed_problems,
                       current_problem |-> Some(first_problem),
                       progress_percentage |-> 0])
            /\ ~isLoading'
            /\ BagCardinality(net') = BagCardinality(net) - 1
    ]_vars

\* C14: a mission was started and the store is MissionActive with nothing
\* pending.
C14_Witness ==
  /\ last.op = "start" /\ last.st = "ok"
  /\ currentMission # None /\ currentProblem = Some(Problem(1))
  /\ missionProgress # None /\ missionProgress[1].progress_percentage = 0
  /\ missionProgress[1].total_problems = TotalProblems
  /\ net = EmptyBag

\* The step is a call of fetchCurrentMission: it has put a request on the wire.
FetchCalled ==
  \E r \in BagToSet(net') :
    r.kind = "current" /\ r.st = "sent" /\ CopiesIn(r, net') > CopiesIn(r, net)

\* C15: a failed fetchCurrentMission sets the store's error and leaves
\* currentMission, currentProblem, missionProgress, timeSpent and startTime
\* as they were.
C15_FailedFetchKeepsState ==
  [][ /\ (last'.op = "current" /\ last'.st = "fail")
         => /\ missionError' # None
            /\ ~isLoading'
            /\ UNCHANGED << currentMission, currentProblem, missionProgress,
                            timeSpent, startTime >>
      /\ FetchCalled
         => UNCHANGED << currentMission, currentProblem, missionProgress,
                         timeSpent, startTime >>
    ]_vars

\* C15: a fetch failed while a mission was held and the timer was running.
C15_Witness ==
  /\ last.op = "current" /\ last.st = "fail"
  /\ currentMission # None /\ currentProblem # None /\ missionProgress # None
  /\ startTime # None /\ missionError # None

\* C16: the response of fetchCurrentMission that carries no mission empties
\* currentMission, currentProblem and missionProgress, sets isLoading to
\* false and does not set the store's error, which the call had cleared.
C16_NoMissionIsNotAnError ==
  [][ /\ (last'.op = "current" /\ last'.st = "refused")
         => /\ currentMission' = None /\ currentProblem' = None
            /\ missionProgress' = None
            /\ ~isLoading'
            /\ missionError' = missionError
      /\ FetchCalled
         => missionError' = None
    ]_vars

\* C16: the backend held no active mission any more and the store, which had
\* asked, is in NoMission without an error.
C16_Witness ==
  /\ last.op = "current" /\ last.st = "refused"
  /\ srvStatus = "completed" /\ currentMission = None
  /\ missionError = None /\ ~isLoading

\* C17: the mission held by the client has completed_problems <=
\* total_problems, and a held mission that is completed is never replaced by
\* the same mission in an earlier status.
C17_StatusNeverBackward ==
  /\ [](currentMission # None =>
          currentMission[1].completed_problems <= currentMission[1].total_problems)
  /\ [][ (/\ currentMission # None /\ currentMission' # None
          /\ currentMission[1].id = currentMission'[1].id
          /\ currentMission[1].status = "completed")
         => currentMission'[1].status = "completed"
       ]_vars


C20_ResetThenReadIsZero ==
  /\ [](last.op = "resetTimer" => getTimeSpent(Cur) = 0 /\ startTime = None)
  /\ [][ (last.op = "resetTimer" /\ last'.op = "getTimeSpent")
         => last'.val = << 0 >> ]_vars

\* C20: the timer was running with at least a second elapsed when it was
\* reset, and the clock has moved on since.
C20_Witness ==
  /\ last.op = "resetTimer" /\ last.st = "running" /\ last.val[1] >= 1
  /\ now > InitialNow + 2 * TickMs
  /\ getTimeSpent(Cur) = 0


\* C18 as stated: after any change of the current problem's identity under
\* the mounted Mission view, timeSpent is 0, startTime is the current
\* instant and the answer store holds no image, answer or result.
TimerRestarted == timeSpent = 0 /\ startTime = Some(now)
AllProblemsDone ==
  /\ currentMission # None /\ currentMission[1].status = "in_progress"
  /\ missionProgress # None /\ missionProgress[1].progress_percentage = 100
  /\ currentProblem = None
MissionCompleted ==
  currentMission # None /\ currentMission[1].status = "completed"
C13_Convergence ==
  /\ (last.op = "start" /\ last.st = "ok")
       ~> (AllProblemsDone /\ Len(srvAnswers) = TotalProblems)
  /\ AllProblemsDone ~> MissionCompleted
  /\ [](AllProblemsDone => Len(srvAnswers) = TotalProblems)
  /\ []((last.op = "progress" /\ last.st = "ok")
          => /\ missionProgress[1].completed_problems = Len(srvAnswers)
             /\ missionProgress[1].progress_percentage
                  = (Len(srvAnswers) * 100) \div TotalProblems)
  /\ [][ (AllProblemsDone /\ last'.op = "complete")
         => /\ last'.st = "ok" /\ last'.val[1] = 1
            /\ MissionCompleted' ]_vars

\* C13: the mission was completed after all its problems were answered.
C13_Witness ==
  /\ MissionCompleted /\ Len(srvAnswers) = TotalProblems
  /\ currentMission[1].completed_problems = TotalProblems
  /\ missionProgress # None /\ missionProgress[1].progress_percentage = 100
  /\ currentProblem = None /\ last.op = "completeProgress"


\* C21: stopTimer() with a start instant recorded adds the whole seconds
\* elapsed since that instant to timeSpent and clears the start instant; with
\* none recorded it changes nothing; a second stopTimer changes nothing.
C21_StopAccumulatesOnce ==
  /\ [][ (last'.op = "stopTimer" /\ now' = now)
         => IF startTime # None
            THEN /\ timeSpent' = timeSpent
                                   + ((now - startTime[1]) \div MsPerSecond)
                 /\ startTime' = None
            ELSE UNCHANGED << timeSpent, startTime >>
       ]_vars
  /\ [](stopTimer(stopTimer(Cur)) = stopTimer(Cur))
  /\ [](last.op = "stopTimer" => stopTimer(Cur) = Cur)

\* C21: a stop found the timer already stopped, with seconds accumulated by
\* the stop before it.
C21_Witness ==
  /\ last.op = "stopTimer" /\ last.st = "stopped" /\ last.val[1] >= 1
  /\ timeSpent >= 1 /\ startTime = None


\* C22: a successful updateProgress() sets missionProgress to the snapshot of
\* the response and currentProblem to the snapshot's current problem, empty
\* when the snapshot carries none.
C22_ProblemFollowsSnapshot ==
  [][ (last'.op \in {"progress", "completeProgress"} /\ last'.st = "ok")
      => /\ missionProgress' = Some(ProgressOf(last'.val[1]))
         /\ currentProblem' = missionProgress'[1].current_problem
         /\ (last'.val[1] < TotalProblems
               => currentProblem' = Some(Problem(last'.val[1] + 1)))
         /\ (last'.val[1] = TotalProblems => currentProblem' = None)
    ]_vars

\* C22: a refresh found every problem done while the store still held a
\* problem: the problem was emptied.
C22_Witness ==
  /\ last.op = "progress" /\ last.st = "ok" /\ last.val = << TotalProblems >>
  /\ currentProblem = None /\ missionProgress # None
  /\ missionProgress[1].current_problem = None
  /\ currentMission # None /\ currentMission[1].completed_problems = 0


\* The step delivers the response of progress request r of the Mission
\* view's submit handler.
RefreshOfSubmitDelivered(r) ==
  /\ r.kind = "progress" /\ r.via = "Mission" /\ r.st # "sent"
  /\ last'.op = "progress" /\ last'.st = r.st
  /\ CopiesIn(r, net') < CopiesIn(r, net)

\* C23: a progress refresh that does not succeed leaves the mission store as
\* it was, error included; in the Mission view a successful submitAnswer is
\* followed by the progress refresh, and the refresh, failed or not, by the
\* navigation to the result of the new answer.
C23_FailedRefreshIsSilent ==
  [][ /\ (last'.op \in {"progress", "completeProgress"} /\ last'.st # "ok")
         => UNCHANGED << currentMission, currentProblem, missionProgress,
                         isLoading, missionError, timeSpent, startTime >>
      /\ (last'.op = "submit" /\ last'.st = "ok" /\ page = "mission"
          /\ net' # net)
         => \/ \E r \in BagToSet(net') :
                 /\ r.kind = "progress" /\ r.via = "Mission" /\ r.st = "sent"
                 /\ r.nav = last'.val[1]
                 /\ CopiesIn(r, net') > CopiesIn(r, net)
            \/ page' = "results" /\ routeAnswerId' = last'.val[1]
      /\ \A r \in BagToSet(net) :
           RefreshOfSubmitDelivered(r)
             => page' = "results" /\ routeAnswerId' = r.nav
    ]_vars

\* C23: the refresh after a submit failed and the view is on the result of
\* the answer just created.
C23_Witness ==
  /\ last.op = "progress" /\ last.st = "fail"
  /\ page = "results" /\ routeAnswerId = Len(srvAnswers) /\ routeAnswerId >= 1
  /\ missionError = None /\ currentProblem # None


\* C24: getCurrentProblem() empties the current problem when the backend
\* reports none remaining and changes nothing else of the mission; a loaded
\* Mission view shows the all-done panel exactly when the current problem is
\* empty and progress_percentage is 100, and the problem-loading notice for
\* an empty current problem with any other percentage.
C24_AllDoneRecognition ==
  /\ [][ (last'.op = "next" /\ last'.st = "refused")
         => /\ currentProblem' = None
            /\ UNCHANGED << currentMission, missionProgress, missionError >>
       ]_vars
  /\ []((~isLoading /\ currentMission # None)
          => /\ (MissionBranch(Cur) = "allDone")
                  <=> (/\ currentProblem = None /\ missionProgress # None
                       /\ missionProgress[1].progress_percentage = 100)
             /\ (currentProblem = None /\ MissionBranch(Cur) # "allDone")
                  => MissionBranch(Cur) = "noProblem")
  /\ []((isLoading \/ currentMission = None)
          => MissionBranch(Cur) = "loading")

\* C24: the backend reported no remaining problem while the store's snapshot
\* was older: the problem is empty and the view does not show all-done.
C24_Witness ==
  /\ last.op = "next" /\ last.st = "refused"
  /\ ~isLoading /\ currentMission # None /\ currentProblem = None
  /\ missionProgress # None /\ missionProgress[1].progress_percentage < 100
  /\ MissionBranch(Cur) = "noProblem"


\* C25: a confirmed completion empties the current problem, stores the
\* mission of the response and issues exactly one progress request; the
\* response of that request leaves the mission untouched, issues nothing
\* more, and a successful one leaves the current problem empty.
C25_CompletionRefreshesOnce ==
  [][ /\ (last'.op = "complete" /\ last'.st = "ok" /\ last'.val[1] = 1)
         => /\ currentProblem' = None
            /\ currentMission' = Some(CompletedMissionOf(last'.val[2]))
            /\ ~isLoading'
            /\ InFlight("progress")' = InFlight("progress") + 1
            /\ BagCardinality(net') = BagCardinality(net)
      /\ (last'.op = "completeProgress" /\ net' # net)
         => /\ UNCHANGED currentMission
            /\ BagCardinality(net') = BagCardinality(net) - 1
            /\ IF last'.st = "ok" THEN currentProblem' = None
               ELSE UNCHANGED << currentProblem, missionProgress >>
    ]_vars

\* C25: the completion and its refresh have settled.
C25_Witness ==
  /\ last.op = "completeProgress" /\ last.st = "ok" /\ net = EmptyBag
  /\ currentProblem = None /\ ~isLoading /\ missionError = None
  /\ currentMission = Some(CompletedMissionOf(TotalProblems))
  /\ missionProgress = Some(ProgressOf(TotalProblems))


\* C26: a successful submitAnswer leaves the staged images as they were,
\* and the step in which the Mission view hands over to the result view of
\* the submitted answer finds them still staged and leaves them staged.
C26_StagedUntilResultShown ==
  [][ /\ (last'.op = "submit" /\ last'.st = "ok" /\ net' # net)
         => capturedImages' = capturedImages
      /\ (last'.op = "progress" /\ page = "mission" /\ page' = "results")
         => capturedImages # << >> /\ capturedImages' = capturedImages
    ]_vars


\* C27: the attempt stores the time read so far and stops the timer; when
\* its submitAnswer fails, the error is recorded, isSubmitting is false, the
\* staged images are kept, the Mission view stays where it is with its
\* submit flags cleared, the timer runs again from the current instant and
\* the accumulated time is the one stored by the attempt.
C27_FailedSubmitRestartsTimer ==
  [][ /\ (last'.op = "handleSubmitAnswer" /\ net' # net)
         => /\ timeSpent' = getTimeSpent(Cur)
            /\ startTime' = None
            /\ isSubmitting'
      /\ (last'.op = "submit" /\ last'.st # "ok" /\ net' # net
          /\ page = "mission")
         => /\ error' # None
            /\ ~isSubmitting'
            /\ capturedImages' = capturedImages
            /\ page' = "mission"
            /\ ~isSubmittingAnswer' /\ ~showSubmitConfirm'
            /\ startTime' = Some(now)
            /\ timeSpent' = timeSpent
            /\ UNCHANGED << currentMission, currentProblem, routeAnswerId >>
    ]_vars

\* C27: a failed submission on the Mission view after one second of work.
C27_Witness ==
  /\ last.op = "submit" /\ last.st # "ok" /\ page = "mission"
  /\ error # None /\ ~isSubmitting /\ capturedImages # << >>
  /\ startTime = Some(now) /\ timeSpent >= 1
  /\ srvAnswers = << >>


\* C28: a successful response to processAnswer or addAnswerImages issues
\* exactly one result request for the same answer and leaves the answer and
\* result held as they were; a response that did not succeed issues no
\* request, sets no timer and records the error; and the response of the
\* result request issued this way is what the store holds afterwards.
C28_FollowUpFetch ==
  [][ /\ (last'.op \in {"process", "addImages"} /\ last'.st = "ok"
          /\ net' # net)
         => /\ InFlight("result")' = InFlight("result") + 1
            /\ BagCardinality(net') = BagCardinality(net)
            /\ \E q \in BagToSet(net') :
                 /\ q.kind = "result" /\ q.arg = last'.arg /\ q.st = "sent"
                 /\ q.via = (IF last'.op = "process" THEN "processAnswer"
                             ELSE "addAnswerImages")
                 /\ CopiesIn(q, net') = CopiesIn(q, net) + 1
            /\ UNCHANGED << currentAnswer, answerResult, timers >>
      /\ (last'.op \in {"process", "addImages"} /\ last'.st # "ok"
          /\ net' # net)
         => /\ InFlight("result")' = InFlight("result")
            /\ BagCardinality(net') = BagCardinality(net) - 1
            /\ error' # None
            /\ UNCHANGED << currentAnswer, answerResult, timers >>
      /\ \A r \in BagToSet(net) :
           (/\ r.kind = "result" /\ r.st = "ok"
            /\ r.via \in {"processAnswer", "addAnswerImages"}
            /\ last'.op = "result" /\ last'.arg = r.arg /\ last'.val = r.val
            /\ CopiesIn(r, net') < CopiesIn(r, net)
            /\ InFlight("result")' < InFlight("result"))
           => /\ currentAnswer' = Some(ResponseAnswer(r))
              /\ answerResult' = ResponseResult(r)
    ]_vars

\* C28: adding images succeeded and its result fetch is on the wire.
C28_Witness ==
  /\ last.op = "addImages" /\ last.st = "ok" /\ ~isSubmitting
  /\ \E q \in BagToSet(net) :
       q.kind = "result" /\ q.via = "addAnswerImages" /\ q.arg = last.arg


\* C29: reset() releases the preview of every staged image once and leaves
\* the answer store with no answer, no result, no staged image, both busy
\* flags false and no error, whatever it held and whatever is pending;
\* clearCapturedImages() releases the same previews and empties the list,
\* and changes no other field of the store.
C29_ResetAndClearRelease ==
  [][ /\ (last'.op \in {"reset", "clearCapturedImages"})
         => /\ capturedImages' = << >>
            /\ \A p \in Previews :
                 revoked'[p] = revoked[p]
                               + (IF p \in Range(capturedImages) THEN 1 ELSE 0)
            /\ UNCHANGED << net, timers, nextImage >>
      /\ (last'.op = "reset")
         => /\ currentAnswer' = None /\ answerResult' = None
            /\ ~isSubmitting' /\ ~isProcessing' /\ error' = None
      /\ (last'.op = "clearCapturedImages")
         => UNCHANGED << currentAnswer, answerResult, isSubmitting,
                         isProcessing, error >>
    ]_vars

\* C29: a reset while a submission of the staged image was in flight.
C29_Witness ==
  /\ last.op = "reset" /\ InFlight("submit") = 1
  /\ \E p \in Previews : revoked[p] = 1
  /\ AnswerStoreCleared /\ ~isSubmitting /\ ~isProcessing /\ error = None


\* C30: every step in which the session stops being authenticated, and
\* every logout, leaves the mission store with no mission, no problem, no
\* progress, isLoading false, no error, timeSpent 0 and no start instant;
\* and reset() gives exactly these values from every state and changes no
\* other field.
C30_ResetOnLogout ==
  /\ [][ ((isAuthenticated /\ ~isAuthenticated') \/ last'.op = "logout")
         => MissionStoreInitial' ]_vars
  /\ [](LET r == resetMission(Cur)
        IN /\ r.currentMission = None /\ r.currentProblem = None
           /\ r.missionProgress = None /\ ~r.isLoading
           /\ r.missionError = None /\ r.timeSpent = 0 /\ r.startTime = None
           /\ r = [Cur EXCEPT !.currentMission = None, !.currentProblem = None,
                              !.missionProgress = None, !.isLoading = FALSE,
                              !.missionError = None, !.timeSpent = 0,
                              !.startTime = None, !.misFresh = TRUE])

\* C30: a logout while the mission fetch of the Mission view was in flight.
C30_Witness ==
  /\ last.op = "logout" /\ ~isAuthenticated /\ page = "login"
  /\ InFlight("current") >= 1
  /\ MissionStoreInitial


\* C31: every response that makes submitAnswer, processAnswer,
\* getAnswerResult or addAnswerImages fail leaves the store's error set to
\* the message of that failure and the operation's busy flag false (and the
\* other flag as it was, except that a failed result fetch awaited by
\* addAnswerImages also clears isSubmitting); submitAnswer with nothing
\* staged records its own message and raises no flag.
C31_FailureIsRecorded ==
  [][ /\ \A r \in BagToSet(net) :
           (/\ r.kind \in {"submit", "process", "result", "addImages"}
            /\ r.st \in {"fail", "refused"}
            /\ last'.op = r.kind /\ last'.st = r.st /\ last'.arg = r.arg
            /\ CopiesIn(r, net') < CopiesIn(r, net)
            /\ BagCardinality(net') < BagCardinality(net))
           => /\ error' = Some(FailureMessage(r))
              /\ error'[1] \in {MsgHttp, MsgEnvelope}
              /\ BagCardinality(net') = BagCardinality(net) - 1
              /\ timers' = timers
              /\ UNCHANGED << currentAnswer, answerResult, capturedImages >>
              /\ IF r.kind \in {"submit", "addImages"}
                 THEN ~isSubmitting' /\ UNCHANGED isProcessing
                 ELSE /\ ~isProcessing'
                      /\ IF r.kind = "result" /\ r.via = "addAnswerImages"
                         THEN ~isSubmitting' ELSE UNCHANGED isSubmitting
      /\ (last'.op = "submitAnswer" /\ last'.st = "throws")
         => /\ error' = Some(MsgNeedImage)
            /\ UNCHANGED << net, timers, isSubmitting, isProcessing,
                            currentAnswer, answerResult, capturedImages >>
    ]_vars

\* C31: a submission has failed while an earlier error-free answer is held.
C31_Witness ==
  /\ last.op = "submit" /\ last.st = "fail" /\ error = Some(MsgHttp)
  /\ ~isSubmitting /\ capturedImages # << >>


\* C32: an error held by the answer store disappears only in a step that is
\* an explicit clearing (clearError, reset) or the arrival of a successful
\* response.
C32_ErrorRetained ==
  [][ (error # None /\ error' = None)
      => \/ last'.op \in {"clearError", "reset"}
         \/ (last'.st = "ok" /\ BagCardinality(net') < BagCardinality(net))
    ]_vars


\* C33: the arrival of a success:false envelope, for any operation other
\* than the lookup of the current mission (where it means "no mission"),
\* leaves the error of the store that made the request set to the
\* envelope's message.
C33_EnvelopeFailureRecorded ==
  [][ \A r \in BagToSet(net) :
        (/\ r.st = "refused" /\ r.kind # "current"
         /\ last'.op = DeliveredOp(r) /\ last'.st = "refused"
         /\ CopiesIn(r, net') < CopiesIn(r, net))
        => IF r.kind \in {"submit", "process", "result", "addImages"}
           THEN error' = Some(MsgEnvelope)
           ELSE missionError' = Some(MsgEnvelope)
    ]_vars


\* C34: a verification that fails, by a failed request or by a response
\* without a user, leaves the session logged out with isLoading false, the
\* stored credential removed and no error, and records nothing else; a
\* verification without a stored credential issues no request and leaves
\* the session logged out.
C34_VerifyFailureIsSilent ==
  [][ /\ (last'.op = "verify" /\ last'.st # "ok" /\ net' # net)
         => /\ ~isAuthenticated' /\ user' = None /\ token' = None
            /\ ~authIsLoading' /\ authToken' = None /\ authError' = None
            /\ BagCardinality(net') = BagCardinality(net) - 1
            /\ UNCHANGED << error, page >>
      /\ (last'.op = "verifyToken" /\ last'.st = "noToken")
         => /\ ~isAuthenticated' /\ user' = None /\ token' = None
            /\ UNCHANGED << net, authToken, authIsLoading, authError >>
      /\ (last'.op = "verifyToken" /\ last'.st = "")
         => /\ authToken # None /\ authIsLoading'
            /\ InFlight("verify")' = InFlight("verify") + 1
    ]_vars

\* C34: a verification of a stored credential was answered without a user.
C34_Witness ==
  /\ last.op = "verify" /\ last.st = "refused"
  /\ ~isAuthenticated /\ user = None /\ token = None /\ authToken = None
  /\ ~authIsLoading /\ authError = None

\* C39: an authenticated session has a user and a token, and the stored
\* credential is that token.
C39_SessionMatchesCredential ==
  isAuthenticated => (user # None /\ token # None /\ authToken = token)


\* C35: when the problem refresh started by the mounted Results view
\* returns, whatever it returns, hasNextProblem becomes true; it is never
\* false, and it is set only while the Results view is mounted.
C35_HasNextIsPlaceholder ==
  /\ [][ \A r \in BagToSet(net) :
           (/\ r.kind = "next" /\ r.via = "ResultsNext" /\ r.st # "sent"
            /\ last'.op = "next" /\ last'.st = r.st
            /\ CopiesIn(r, net') < CopiesIn(r, net))
           => hasNextProblem' = Some(TRUE) ]_vars
  /\ [](hasNextProblem # Some(FALSE))
  /\ [](hasNextProblem # None => page = "results")

\* C35: the decision says "next problem" while none remains.
C35_Witness ==
  /\ page = "results" /\ hasNextProblem = Some(TRUE)
  /\ last.op = "next" /\ last.st = "refused"
  /\ currentMission # None /\ currentProblem = None
  /\ currentAnswer # None /\ answerResult # None
  /\ missionProgress # None /\ missionProgress[1].progress_percentage = 100


\* C36: the poll timers pending plus the result fetches in flight that a
\* poll timer started are never more than one.
C36_AtMostOnePoll ==
  BagCardinality(timers)
  + BagCardinality([r \in {q \in BagToSet(net) :
                             q.kind = "result" /\ q.via = "poll"}
                    |-> CopiesIn(r, net)]) <= 1



\* C37: every mission-store operation that sets isLoading (fetchCurrentMission,
\* startNewMission, completeMission) clears it when its response arrives,
\* whatever the response: isLoading is never true with none of their requests
\* pending, and the delivery of such a response with no other one pending
\* leaves isLoading false.
C37_LoadingEnds ==
  /\ [](isLoading => \E r \in BagToSet(net) :
                       r.kind \in {"current", "start", "complete"})
  /\ [][ \A r \in BagToSet(net) :
           (/\ r.kind \in {"current", "start", "complete"}
            /\ last'.op = DeliveredOp(r) /\ last'.st = r.st
            /\ CopiesIn(r, net') < CopiesIn(r, net)
            /\ \A q \in BagToSet(net') :
                  q.kind \notin {"current", "start", "complete"})
           => ~isLoading' ]_vars


\* C40: when startNewMission resolves successfully in handleStartMission, the
\* view navigates to /mission/<id>, <id> being the id of the mission the store
\* holds after the call.
C40_StartNavigates ==
  [][ \A r \in BagToSet(net) :
        (/\ r.kind = "start" /\ r.via = "Dashboard" /\ r.st = "ok"
         /\ last'.op \in {"start", "navigate"}
         /\ CopiesIn(r, net') < CopiesIn(r, net))
        => /\ page' = "mission"
           /\ currentMission' # None
           /\ last' = Ev("navigate", currentMission'[1].id, "mission", << >>)
    ]_vars


\* C38: on the Results view, whenever the answer store holds an error and no
\* poll is pending (no timer, no result fetch in flight), the render takes the
\* error panel with its retry action, not the grading indicator.
C38_FailedIsShown ==
  (/\ page = "results" /\ error # None
   /\ timers = EmptyBag /\ InFlight("result") = 0)
  => ResultsBranch(Cur) = "error"

====
